---- MODULE Spec2Model ----
(***************************************************************************)
(* Model of the demo-recording tooling in docs/demos/shared: lib.py        *)
(* (dependency download, tape rendering, command extraction, text and      *)
(* snapshot recording) and validation.py (OCR checkpoints).                *)
(*                                                                         *)
(* Text is modelled as a sequence of one-character strings, so that        *)
(* str.replace, str.strip, str.split, str.startswith, the `in` operator    *)
(* and the regular expressions of the source are computed character by     *)
(* character.  Each group of functions has its own specification; the      *)
(* variables of the other groups stay at their idle values.                *)
(***************************************************************************)
EXTENDS Integers, Sequences, FiniteSets, TLC

VARIABLES
    \* render_tape (lib.py 244-271)
    rn_pc,          \* "start" | "inline" | "replace" | "done"
    rn_exists,      \* template_path.exists()
    rn_template,    \* the text of the template file
    rn_files,       \* the files under repo_root: path -> text
    rn_repl,        \* replacements: sequence of <<key, value>> in dict order
    rn_rendered,    \* the local `rendered`
    rn_k,           \* position of the for loop over replacements.items()
    rn_result,      \* what the call returned or raised
    \* extract_commands_from_tape (lib.py 981-1042)
    ex_pc,          \* "start" | "scan" | "done"
    ex_exists,      \* tape_path.exists()
    ex_template,    \* the text of the tape file
    ex_files,       \* the files under repo_root
    ex_prefixes,    \* command_prefixes
    ex_lines,       \* lines
    ex_i,           \* i, 1-based
    ex_visible,     \* in_visible_section
    ex_commands,    \* commands
    ex_result,      \* what the call returned or raised
    \* record_snapshot (lib.py 1045-1135)
    sn_pc,          \* "start" | "script" | "fish" | "write" | "done"
    sn_exists,      \* tape_path.exists()
    sn_template,    \* the text of the tape file
    sn_files,       \* the files under repo_root
    sn_commands,    \* commands
    sn_script,      \* the file out_dir/.snapshot-script.fish: None or its lines
    sn_fish,        \* return codes of the fish processes run so far
    sn_output,      \* the local `output`
    sn_snap,        \* the file output_snap: None or its text
    sn_snap0,       \* output_snap as it was when the call started
    sn_result,      \* what the call returned or raised
    \* record_text (lib.py 924-978)
    tx_pc,          \* "start" | "vhs" | "copy" | "done"
    tx_calls,       \* calls of record_text made so far, this one included
    tx_exists,      \* tape_path.exists()
    tx_template,    \* the text of the tape file
    tx_tape,        \* the file out_dir/.text-rendered.tape: None or its text
    tx_temp,        \* the file out_dir/.text-output.txt (temp_txt): None or a file
    tx_out,         \* the file output_txt: None or a file
    tx_out0,        \* output_txt as it was when the call started
    tx_vhs,         \* what the VHS process of this call did
    tx_result,      \* what the call returned or raised
    \* the subprocesses of prepare_base_repo, build_wt, record_vhs
    su_fn,          \* the function that is running
    su_i,           \* the index in Calls[su_fn] of its next subprocess
    su_rcs,         \* the return codes of the subprocesses it has launched
    su_result,      \* what the function returned or raised
    \* validate_checkpoint (validation.py 90-122)
    vc_pc,          \* "extract" | "ocr" | "expected" | "forbidden" | "done"
    vc_frame,       \* frame_number
    vc_expected,    \* the expected patterns
    vc_forbidden,   \* the forbidden patterns
    vc_text,        \* what ocr_image returned
    vc_k,           \* the index of the next pattern of the running loop
    vc_errors,      \* errors
    vc_result,      \* what the call returned
    vc_tools,       \* the subprocesses run so far, with what came of each
    \* validate_tui_demo (validation.py 125-159)
    vd_pc,          \* "start" | "frames" | "done"
    vd_demo,        \* demo_name
    vd_gif,         \* gif_path.exists()
    vd_which,       \* the return code of "which" for each tool
    vd_frames,      \* for each checkpoint, what ffmpeg and tesseract make of it
    vd_i,           \* the index of the next checkpoint
    vd_errors,      \* the errors of the checkpoints validated so far
    vd_all,         \* all_errors
    vd_result,      \* what the call returned
    \* _download_file (lib.py 60-75), run by several processes for one dest
    dl_pc,          \* per process: "mkdir" | "retrieve" | "exists" | "rename" | "unlink" | "done"
    dl_parent,      \* dest.parent exists
    dl_temp,        \* per process: its temp file, None or a file
    dl_dest,        \* the file dest: None or a file
    dl_result,      \* per process: what the call returned or raised
    \* record_all_themes (lib.py 1174-1217)
    th_pc,          \* "start" | "render" | "record" | "done"
    th_exists,      \* tape_template.exists()
    th_template,    \* the text of the tape template
    th_gifs,        \* the theme names of output_gifs, in dict order
    th_i,           \* the index in th_gifs of the theme at hand
    th_tape,        \* the file out_dir/.rendered.tape: None or its text
    th_runs,        \* the VHS runs so far: theme and return code
    th_result,      \* what the call returned or raised
    \* validate_tui_demo_verbose (validation.py 162-203)
    vv_pc,          \* "start" | "frames" | "done"
    vv_demo,        \* demo_name
    vv_gif,         \* gif_path.exists()
    vv_which,       \* the return code of "which" for each tool
    vv_frames,      \* for each checkpoint, what ffmpeg and tesseract make of it
    vv_i,           \* the index of the next checkpoint
    vv_errors,      \* the errors of the checkpoints validated so far
    vv_lines,       \* lines
    vv_passed,      \* all_passed
    vv_result,      \* what the call returned
    \* the git repositories prepare_demo_repo (lib.py 739-898) builds
    gr_i,           \* the index in DemoRepoSteps of the next git command
    gr_head,        \* the branch checked out in the main repository
    gr_local,       \* the local branches: name -> commits, oldest first
    gr_remote,      \* the branches of the bare remote: name -> commits
    gr_upstream,    \* the local branches that track a remote branch
    gr_worktrees,   \* the linked worktrees: path -> branch
    gr_result,      \* what prepare_demo_repo returned or raised
    \* the directories of a DemoEnv under the setup functions (lib.py 305-802)
    fs_dirs,        \* the directories that exist under out_dir
    fs_op,          \* the setup function called last
    fs_kept,        \* what its rmtree left: "nothing" | "part" | "tree"
    fs_missed,      \* the file it tried to write into a missing directory
    fs_result,      \* what it returned or raised
    \* ensure_vhs_binary (lib.py 120-172)
    vh_pc,          \* "idle" | "entry" | "go" | "clone" | "build" | "verify" | "done"
    vh_calls,       \* the calls made so far
    vh_go,          \* shutil.which("go") finds Go
    vh_dir,         \* vhs_dir.exists()
    vh_binary,      \* vhs_binary.exists()
    vh_entry,       \* vhs_dir and vhs_binary as they were on entry
    vh_ran,         \* the steps of this call so far, and whether each succeeded
    vh_result,      \* what the call returned or raised
    cb_dest,        \* the file at DEPS_DIR / "claude", or None
    cb_proc         \* each process's call of _ensure_claude_binary: pc, calls, temp, result, seen

renderVars ==
    <<rn_pc, rn_exists, rn_template, rn_files, rn_repl, rn_rendered, rn_k, rn_result>>

extractVars ==
    <<ex_pc, ex_exists, ex_template, ex_files, ex_prefixes, ex_lines, ex_i,
      ex_visible, ex_commands, ex_result>>

snapVars ==
    <<sn_pc, sn_exists, sn_template, sn_files, sn_commands, sn_script, sn_fish,
      sn_output, sn_snap, sn_snap0, sn_result>>

textVars ==
    <<tx_pc, tx_calls, tx_exists, tx_template, tx_tape, tx_temp, tx_out, tx_out0,
      tx_vhs, tx_result>>

callVars == <<su_fn, su_i, su_rcs, su_result>>

checkVars ==
    <<vc_pc, vc_frame, vc_expected, vc_forbidden, vc_text, vc_k, vc_errors, vc_result,
      vc_tools>>

demoVars ==
    <<vd_pc, vd_demo, vd_gif, vd_which, vd_frames, vd_i, vd_errors, vd_all, vd_result>>

downloadVars == <<dl_pc, dl_parent, dl_temp, dl_dest, dl_result>>

themeVars ==
    <<th_pc, th_exists, th_template, th_gifs, th_i, th_tape, th_runs, th_result>>

verboseVars ==
    <<vv_pc, vv_demo, vv_gif, vv_which, vv_frames, vv_i, vv_errors, vv_lines,
      vv_passed, vv_result>>

gitVars ==
    <<gr_i, gr_head, gr_local, gr_remote, gr_upstream, gr_worktrees, gr_result>>

fsVars == <<fs_dirs, fs_op, fs_kept, fs_missed, fs_result>>

vhsVars ==
    <<vh_pc, vh_calls, vh_go, vh_dir, vh_binary, vh_entry, vh_ran, vh_result>>

claudeVars ==
    <<cb_dest, cb_proc>>

vars ==
    <<renderVars, extractVars, snapVars, textVars, callVars, checkVars,
      demoVars, downloadVars, themeVars, verboseVars, gitVars, fsVars,
      vhsVars, claudeVars>>

\* What a group of functions leaves alone: the variables of the other groups.
notRender ==
    <<extractVars, snapVars, textVars, callVars, checkVars, demoVars,
      downloadVars, themeVars, verboseVars, gitVars, fsVars, vhsVars,
      claudeVars>>
notExtract ==
    <<renderVars, snapVars, textVars, callVars, checkVars, demoVars,
      downloadVars, themeVars, verboseVars, gitVars, fsVars, vhsVars,
      claudeVars>>
notSnap ==
    <<renderVars, extractVars, textVars, callVars, checkVars, demoVars,
      downloadVars, themeVars, verboseVars, gitVars, fsVars, vhsVars,
      claudeVars>>
notText ==
    <<renderVars, extractVars, snapVars, callVars, checkVars, demoVars,
      downloadVars, themeVars, verboseVars, gitVars, fsVars, vhsVars,
      claudeVars>>
notCalls ==
    <<renderVars, extractVars, snapVars, textVars, checkVars, demoVars,
      downloadVars, themeVars, verboseVars, gitVars, fsVars, vhsVars,
      claudeVars>>
notCheck ==
    <<renderVars, extractVars, snapVars, textVars, callVars, demoVars,
      downloadVars, themeVars, verboseVars, gitVars, fsVars, vhsVars,
      claudeVars>>
notDemo ==
    <<renderVars, extractVars, snapVars, textVars, callVars, checkVars,
      downloadVars, themeVars, verboseVars, gitVars, fsVars, vhsVars,
      claudeVars>>
notDownload ==
    <<renderVars, extractVars, snapVars, textVars, callVars, checkVars,
      demoVars, themeVars, verboseVars, gitVars, fsVars, vhsVars, claudeVars>>
notThemes ==
    <<renderVars, extractVars, snapVars, textVars, callVars, checkVars,
      demoVars, downloadVars, verboseVars, gitVars, fsVars, vhsVars,
      claudeVars>>
notVerbose ==
    <<renderVars, extractVars, snapVars, textVars, callVars, checkVars,
      demoVars, downloadVars, themeVars, gitVars, fsVars, vhsVars,
      claudeVars>>
notGit ==
    <<renderVars, extractVars, snapVars, textVars, callVars, checkVars,
      demoVars, downloadVars, themeVars, verboseVars, fsVars, vhsVars,
      claudeVars>>
notFs ==
    <<renderVars, extractVars, snapVars, textVars, callVars, checkVars,
      demoVars, downloadVars, themeVars, verboseVars, gitVars, vhsVars,
      claudeVars>>
notVhs ==
    <<renderVars, extractVars, snapVars, textVars, callVars, checkVars,
      demoVars, downloadVars, themeVars, verboseVars, gitVars, fsVars,
      claudeVars>>
notClaude ==
    <<renderVars, extractVars, snapVars, textVars, callVars, checkVars,
      demoVars, downloadVars, themeVars, verboseVars, gitVars, fsVars,
      vhsVars>>

\* What a call yields: None, a text, or an exception.
None == [kind |-> "None"]
Text(s) == [kind |-> "text", text |-> s]
List(l) == [kind |-> "list", list |-> l]
Returned == [kind |-> "returned"]
Raised(exc) == [kind |-> "raised", exc |-> exc]
Pending == [kind |-> "pending"]

(***************************************************************************)
(* The state of a group of functions that the specification at hand does   *)
(* not run.                                                                *)
(***************************************************************************)

IdleRender ==
    /\ rn_pc = "idle"
    /\ rn_exists = FALSE
    /\ rn_template = <<>>
    /\ rn_files = <<>>
    /\ rn_repl = <<>>
    /\ rn_rendered = <<>>
    /\ rn_k = 0
    /\ rn_result = Pending

IdleSnap ==
    /\ sn_pc = "idle"
    /\ sn_exists = FALSE
    /\ sn_template = <<>>
    /\ sn_files = <<>>
    /\ sn_commands = <<>>
    /\ sn_script = None
    /\ sn_fish = <<>>
    /\ sn_output = <<>>
    /\ sn_snap = None
    /\ sn_snap0 = None
    /\ sn_result = Pending

NotRun == [ran |-> FALSE, rc |-> 0, created |-> FALSE]

IdleCheck ==
    /\ vc_pc = "idle"
    /\ vc_frame = 0
    /\ vc_expected = <<>>
    /\ vc_forbidden = <<>>
    /\ vc_text = <<>>
    /\ vc_k = 0
    /\ vc_errors = <<>>
    /\ vc_result = Pending
    /\ vc_tools = <<>>

IdleDemo ==
    /\ vd_pc = "idle"
    /\ vd_demo = ""
    /\ vd_gif = FALSE
    /\ vd_which = <<>>
    /\ vd_frames = <<>>
    /\ vd_i = 0
    /\ vd_errors = <<>>
    /\ vd_all = <<>>
    /\ vd_result = Pending

IdleDownload ==
    /\ dl_pc = <<>>
    /\ dl_parent = FALSE
    /\ dl_temp = <<>>
    /\ dl_dest = None
    /\ dl_result = <<>>

\* Neither the validation functions nor the download functions are running.
IdleValidation == IdleCheck /\ IdleDemo /\ IdleDownload

IdleCalls ==
    /\ su_fn = "idle"
    /\ su_i = 0
    /\ su_rcs = <<>>
    /\ su_result = Pending

IdleText ==
    /\ tx_pc = "idle"
    /\ tx_calls = 0
    /\ tx_exists = FALSE
    /\ tx_template = <<>>
    /\ tx_tape = None
    /\ tx_temp = None
    /\ tx_out = None
    /\ tx_out0 = None
    /\ tx_vhs = NotRun
    /\ tx_result = Pending

IdleThemes ==
    /\ th_pc = "idle"
    /\ th_exists = FALSE
    /\ th_template = <<>>
    /\ th_gifs = <<>>
    /\ th_i = 0
    /\ th_tape = None
    /\ th_runs = <<>>
    /\ th_result = Pending

IdleVerbose ==
    /\ vv_pc = "idle"
    /\ vv_demo = ""
    /\ vv_gif = FALSE
    /\ vv_which = <<>>
    /\ vv_frames = <<>>
    /\ vv_i = 0
    /\ vv_errors = <<>>
    /\ vv_lines = <<>>
    /\ vv_passed = TRUE
    /\ vv_result = Pending

IdleGit ==
    /\ gr_i = 0
    /\ gr_head = ""
    /\ gr_local = <<>>
    /\ gr_remote = <<>>
    /\ gr_upstream = {}
    /\ gr_worktrees = <<>>
    /\ gr_result = Pending

IdleFs ==
    /\ fs_dirs = {}
    /\ fs_op = ""
    /\ fs_kept = ""
    /\ fs_missed = <<>>
    /\ fs_result = Pending

IdleVhs ==
    /\ vh_pc = "none"
    /\ vh_calls = 0
    /\ vh_go = FALSE
    /\ vh_dir = FALSE
    /\ vh_binary = FALSE
    /\ vh_entry = <<>>
    /\ vh_ran = <<>>
    /\ vh_result = Pending

IdleClaude ==
    /\ cb_dest = None
    /\ cb_proc = <<>>

IdleExtract ==
    /\ ex_pc = "idle"
    /\ ex_exists = FALSE
    /\ ex_template = <<>>
    /\ ex_files = <<>>
    /\ ex_prefixes = <<>>
    /\ ex_lines = <<>>
    /\ ex_i = 0
    /\ ex_visible = FALSE
    /\ ex_commands = <<>>
    /\ ex_result = Pending

\* The groups that the specifications of rendering, extraction, recording,
\* validation and download leave idle.
IdleSetup ==
    /\ IdleThemes
    /\ IdleVerbose
    /\ IdleGit
    /\ IdleFs
    /\ IdleVhs
    /\ IdleClaude

IdleRecording ==
    /\ IdleRender
    /\ IdleExtract
    /\ IdleSnap
    /\ IdleText
    /\ IdleCalls
    /\ IdleCheck
    /\ IdleDemo
    /\ IdleDownload

\* All the groups but one are idle.
QuietThemes ==
    /\ IdleRecording
    /\ IdleVerbose
    /\ IdleGit
    /\ IdleFs
    /\ IdleVhs
    /\ IdleClaude

QuietVerbose ==
    /\ IdleRecording
    /\ IdleThemes
    /\ IdleGit
    /\ IdleFs
    /\ IdleVhs
    /\ IdleClaude

QuietGit ==
    /\ IdleRecording
    /\ IdleThemes
    /\ IdleVerbose
    /\ IdleFs
    /\ IdleVhs
    /\ IdleClaude

QuietFs ==
    /\ IdleRecording
    /\ IdleThemes
    /\ IdleVerbose
    /\ IdleGit
    /\ IdleVhs
    /\ IdleClaude

QuietVhs ==
    /\ IdleRecording
    /\ IdleThemes
    /\ IdleVerbose
    /\ IdleGit
    /\ IdleFs
    /\ IdleClaude

QuietClaude ==
    /\ IdleRecording
    /\ IdleThemes
    /\ IdleVerbose
    /\ IdleGit
    /\ IdleFs
    /\ IdleVhs

(***************************************************************************)
(* Python string primitives on sequences of characters.                    *)
(***************************************************************************)

\* Characters str.strip() removes and the regex class \s matches.
IsSpace(c) == c \in {" ", "\t", "\n", "\r"}

\* s.startswith(p)
StartsWith(s, p) == Len(s) >= Len(p) /\ SubSeq(s, 1, Len(p)) = p

\* s[i:] with a 1-based first index
From(s, i) == SubSeq(s, i, Len(s))

\* sub in s
In(sub, s) == \E k \in 0..(Len(s) - Len(sub)) : SubSeq(s, k + 1, k + Len(sub)) = sub

\* s.lstrip(), s.rstrip(), s.strip()
RECURSIVE LStrip(_)
LStrip(s) == IF s # <<>> /\ IsSpace(Head(s)) THEN LStrip(Tail(s)) ELSE s

RECURSIVE RStrip(_)
RStrip(s) ==
    IF s # <<>> /\ IsSpace(s[Len(s)]) THEN RStrip(SubSeq(s, 1, Len(s) - 1)) ELSE s

Strip(s) == RStrip(LStrip(s))

\* s.replace(old, new, 1): only the first occurrence is replaced.
RECURSIVE ReplaceFirst(_, _, _)
ReplaceFirst(s, old, new) ==
    IF Len(s) < Len(old) THEN s
    ELSE IF StartsWith(s, old) THEN new \o From(s, Len(old) + 1)
    ELSE <<Head(s)>> \o ReplaceFirst(Tail(s), old, new)

\* s.replace(old, new) for a non-empty old: the non-overlapping occurrences
\* of old, found left to right, are replaced by new.
RECURSIVE Replace(_, _, _)
Replace(s, old, new) ==
    IF Len(s) < Len(old) THEN s
    ELSE IF StartsWith(s, old) THEN new \o Replace(From(s, Len(old) + 1), old, new)
    ELSE <<Head(s)>> \o Replace(Tail(s), old, new)

\* s.split("\n")
RECURSIVE SplitFrom(_, _)
SplitFrom(s, cur) ==
    IF s = <<>> THEN <<cur>>
    ELSE IF Head(s) = "\n" THEN <<cur>> \o SplitFrom(Tail(s), <<>>)
    ELSE SplitFrom(Tail(s), Append(cur, Head(s)))

Split(s) == SplitFrom(s, <<>>)

\* "\n".join(ls)
RECURSIVE Join(_)
Join(ls) ==
    IF ls = <<>> THEN <<>>
    ELSE IF Len(ls) = 1 THEN ls[1]
    ELSE ls[1] \o <<"\n">> \o Join(Tail(ls))

\* str(value) for the values a replacements dict holds: text stays as it is,
\* an int (WIDTH, HEIGHT, FONTSIZE) becomes its decimal digits.
Digit(d) == <<"0", "1", "2", "3", "4", "5", "6", "7", "8", "9">>[d + 1]

RECURSIVE DecStr(_)
DecStr(n) == IF n < 10 THEN <<Digit(n)>> ELSE DecStr(n \div 10) \o <<Digit(n % 10)>>

StrVal(s) == [t |-> "str", n |-> 0, s |-> s]
IntVal(n) == [t |-> "int", n |-> n, s |-> <<>>]

Str(v) == IF v.t = "int" THEN DecStr(v.n) ELSE v.s

\* f"{{{{{key}}}}}"
Token(key) == <<"{", "{">> \o key \o <<"}", "}">>

(***************************************************************************)
(* render_tape (lib.py 244-271)                                            *)
(***************************************************************************)

\* s.strip('"')
RECURSIVE StripQuotes(_)
StripQuotes(s) ==
    IF s # <<>> /\ Head(s) = "\"" THEN StripQuotes(Tail(s))
    ELSE IF s # <<>> /\ s[Len(s)] = "\"" THEN StripQuotes(SubSeq(s, 1, Len(s) - 1))
    ELSE s

SourceWord == <<"S", "o", "u", "r", "c", "e">>

\* Length of the run of characters of s, from index i on, that satisfy the
\* test: whitespace for \s+, anything but a newline for .+
RECURSIVE SpaceRun(_, _)
SpaceRun(s, i) == IF i <= Len(s) /\ IsSpace(s[i]) THEN 1 + SpaceRun(s, i + 1) ELSE 0

RECURSIVE DotRun(_, _)
DotRun(s, i) == IF i <= Len(s) /\ s[i] # "\n" THEN 1 + DotRun(s, i + 1) ELSE 0

\* The match of r"^Source\s+(.+)$" at the head of s, which starts a line:
\* \s+ is greedy and gives characters back until (.+) finds a character that
\* is not a newline; (.+) then runs to the end of the line, where $ matches.
\* The widths n that \s+ can keep:
SourceWidths(s) ==
    IF StartsWith(s, SourceWord)
    THEN {n \in 1..SpaceRun(s, 7) : DotRun(s, 7 + n) >= 1}
    ELSE {}

SourceMatches(s) == SourceWidths(s) # {}

SourceWidth(s) == CHOOSE n \in SourceWidths(s) : \A m \in SourceWidths(s) : m <= n

\* match.group(1) and the index after the match
SourceGroup(s) ==
    LET q == 7 + SourceWidth(s) IN SubSeq(s, q, q + DotRun(s, q) - 1)

SourceEnd(s) == LET q == 7 + SourceWidth(s) IN q + DotRun(s, q)

\* inline_source: the path whose text replaces the match
SourcePath(s) == StripQuotes(Strip(SourceGroup(s)))

\* The paths re.sub hands to inline_source, left to right; a match is tried
\* at every start of a line that no earlier match has consumed.
RECURSIVE SourcePaths(_, _)
SourcePaths(s, bol) ==
    IF s = <<>> THEN <<>>
    ELSE IF bol /\ SourceMatches(s)
         THEN <<SourcePath(s)>> \o SourcePaths(From(s, SourceEnd(s)), FALSE)
    ELSE SourcePaths(Tail(s), Head(s) = "\n")

\* The file system under repo_root maps each path it knows to the file's
\* text, or to None when no such file exists.
FileExists(files, path) == path \in DOMAIN files /\ files[path] # None

\* source_path.read_text() raises when the file does not exist
SourceMissing(s, files) ==
    \E i \in 1..Len(SourcePaths(s, TRUE)) : ~FileExists(files, SourcePaths(s, TRUE)[i])

RECURSIVE InlineSourcesDeep(_, _, _)
InlineSourcesDeep(s, bol, files) ==
    IF s = <<>> THEN <<>>
    ELSE IF bol /\ SourceMatches(s)
         THEN InlineSourcesDeep(files[SourcePath(s)].text, TRUE, files)
                \o InlineSourcesDeep(From(s, SourceEnd(s)), FALSE, files)
    ELSE <<Head(s)>> \o InlineSourcesDeep(Tail(s), Head(s) = "\n", files)

\* re.sub(r"^Source\s+(.+)$", inline_source, rendered, flags=re.MULTILINE):
\* the text a file contributes is not scanned again.
RECURSIVE InlineSources(_, _, _)
InlineSources(s, bol, files) ==
    IF s = <<>> THEN <<>>
    ELSE IF bol /\ SourceMatches(s)
         THEN files[SourcePath(s)].text \o InlineSources(From(s, SourceEnd(s)), FALSE, files)
    ELSE <<Head(s)>> \o InlineSources(Tail(s), Head(s) = "\n", files)

\* The loop "for key, value in replacements.items()", from position k on
RECURSIVE ApplyReplacements(_, _, _)
ApplyReplacements(s, repl, k) ==
    IF k > Len(repl) THEN s
    ELSE ApplyReplacements(Replace(s, Token(repl[k][1]), Str(repl[k][2])), repl, k + 1)

\* render_tape as a function of the file system: None when the template is
\* missing, an exception when a Source file is missing, else the text.
render_tape(exists, text, repl, files) ==
    IF ~exists THEN None
    ELSE IF SourceMissing(text, files) THEN Raised("FileNotFoundError")
    ELSE Text(ApplyReplacements(InlineSources(text, TRUE, files), repl, 1))

(***************************************************************************)
(* Specification SpecRender: one call of render_tape, step by step, on a   *)
(* bounded family of templates and replacement dicts.                      *)
(***************************************************************************)

MaxPieces == 3
MaxKeys == 2

\* Templates are concatenations of at most MaxPieces pieces.
RenderPieces ==
    { <<"{">>, <<"}">>, <<"A">>, <<"x">>, Token(<<"A">>), Token(<<"B">>),
      <<"S", "o", "u", "r", "c", "e", " ", "s", "\n">> }

RECURSIVE Concats(_)
Concats(n) ==
    IF n = 0 THEN {<<>>}
    ELSE Concats(n - 1) \cup {p \o t : p \in RenderPieces, t \in Concats(n - 1)}

RenderTemplates == Concats(MaxPieces)

RenderKeys == {<<"A">>, <<"B">>}

RenderValues ==
    { StrVal(<<>>), StrVal(<<"x">>), StrVal(<<"A">>), StrVal(<<"x", "A">>),
      StrVal(Token(<<"A">>)), StrVal(Token(<<"B">>)), IntVal(7) }

\* dicts: sequences of <<key, value>> with distinct keys, in insertion order
RenderDicts ==
    UNION { { d \in [1..n -> RenderKeys \X RenderValues] :
                \A i, j \in 1..n : i # j => d[i][1] # d[j][1] } : n \in 0..MaxKeys }

\* The shared file a Source directive can name, and its text.
RenderFiles == (<<"s">> :> Text(<<"x">> \o Token(<<"A">>)))
NoRenderFiles == (<<"s">> :> None)

InitRender ==
    /\ rn_pc = "start"
    /\ rn_exists \in BOOLEAN
    /\ rn_template \in (IF rn_exists THEN RenderTemplates ELSE {<<>>})
    /\ rn_files \in {RenderFiles, NoRenderFiles}
    /\ rn_repl \in RenderDicts
    /\ rn_rendered = <<>>
    /\ rn_k = 0
    /\ rn_result = Pending
    /\ IdleExtract
    /\ IdleSnap
    /\ IdleText
    /\ IdleCalls
    /\ IdleValidation
    /\ IdleSetup

\* lines 255-257: the template does not exist
RenderNoTemplate ==
    /\ rn_pc = "start"
    /\ ~rn_exists
    /\ rn_pc' = "done"
    /\ rn_result' = None
    /\ UNCHANGED <<rn_exists, rn_template, rn_files, rn_repl, rn_rendered, rn_k>>
    /\ UNCHANGED notRender

\* lines 259-266: read the template and inline its Source directives
RenderInline ==
    /\ rn_pc = "start"
    /\ rn_exists
    /\ IF SourceMissing(rn_template, rn_files)
       THEN /\ rn_pc' = "done"
            /\ rn_result' = Raised("FileNotFoundError")
            /\ UNCHANGED <<rn_rendered, rn_k>>
       ELSE /\ rn_pc' = "replace"
            /\ rn_rendered' = InlineSources(rn_template, TRUE, rn_files)
            /\ rn_k' = 1
            /\ UNCHANGED rn_result
    /\ UNCHANGED <<rn_exists, rn_template, rn_files, rn_repl>>
    /\ UNCHANGED notRender

\* lines 269-270: one turn of the loop over replacements.items()
RenderReplace ==
    /\ rn_pc = "replace"
    /\ rn_k <= Len(rn_repl)
    /\ rn_rendered' =
          Replace(rn_rendered, Token(rn_repl[rn_k][1]), Str(rn_repl[rn_k][2]))
    /\ rn_k' = rn_k + 1
    /\ UNCHANGED <<rn_pc, rn_exists, rn_template, rn_files, rn_repl, rn_result>>
    /\ UNCHANGED notRender

\* line 271
RenderReturn ==
    /\ rn_pc = "replace"
    /\ rn_k > Len(rn_repl)
    /\ rn_pc' = "done"
    /\ rn_result' = Text(rn_rendered)
    /\ UNCHANGED <<rn_exists, rn_template, rn_files, rn_repl, rn_rendered, rn_k>>
    /\ UNCHANGED notRender

NextRender ==
    \/ RenderNoTemplate
    \/ RenderInline
    \/ RenderReplace
    \/ RenderReturn

SpecRender == InitRender /\ [][NextRender]_vars

\* The step-by-step call returns what the function computes.
RenderAgrees ==
    rn_pc = "done" => rn_result = render_tape(rn_exists, rn_template, rn_repl, rn_files)

(***************************************************************************)
(* C3                                                                      *)
(***************************************************************************)

RenderedText == rn_pc = "done" /\ rn_result.kind = "text"

KeyOf(i) == rn_repl[i][1]
ValueOf(i) == Str(rn_repl[i][2])

Chars(s) == {s[i] : i \in 1..Len(s)}
Braces == {"{", "}"}

\* No key and no value holds a brace, and every value holds a character
\* that occurs in no key (so it is not empty).
PlainReplacements ==
    /\ \A i \in 1..Len(rn_repl) : Chars(KeyOf(i)) \cap Braces = {}
    /\ \A i \in 1..Len(rn_repl) :
          /\ Chars(ValueOf(i)) \cap Braces = {}
          /\ \E c \in Chars(ValueOf(i)) : \A j \in 1..Len(rn_repl) : c \notin Chars(KeyOf(j))

\* C3 as stated: for every template and every replacements dict, the text
\* render_tape returns contains no {{K}} token for any key K of replacements.
C3_NoTokenOfAnyKey ==
    RenderedText =>
        \A i \in 1..Len(rn_repl) : ~In(Token(KeyOf(i)), rn_result.text)

\* C3 amended: the text render_tape returns contains no {{K}} token for any
\* key K of replacements, provided no key and no replacement value contains
\* a brace and every value contains a character that occurs in no key.
C3_NoTokenWhenPlain ==
    (RenderedText /\ PlainReplacements) =>
        \A i \in 1..Len(rn_repl) : ~In(Token(KeyOf(i)), rn_result.text)

\* A call that returned a text in which a token of the template, occurring
\* twice, was replaced under plain replacements.
C3_Witness ==
    /\ RenderedText
    /\ PlainReplacements
    /\ \E i \in 1..Len(rn_repl) :
          /\ In(Token(KeyOf(i)) \o Token(KeyOf(i)), rn_template)
          /\ In(ValueOf(i) \o ValueOf(i), rn_result.text)

(***************************************************************************)
(* extract_commands_from_tape (lib.py 981-1042)                            *)
(***************************************************************************)

TypeWord == <<"T", "y", "p", "e">>
SleepPrefix == <<"S", "l", "e", "e", "p", " ">>
EnterWord == <<"E", "n", "t", "e", "r">>
ShowWord == <<"S", "h", "o", "w">>
HideWord == <<"H", "i", "d", "e">>

IsQuote(c) == c \in {"\"", "'"}

\* re.match(r'Type\s+["\'](.+)["\']', line) on a stripped line: \s+ takes the
\* whole run of whitespace after Type (a shorter run would leave whitespace
\* where the quote has to be), a quote follows, and the greedy (.+) runs to
\* the last quote of the line that leaves it at least one character.
TypeOpen(line) == 5 + SpaceRun(line, 5)

TypeCloses(line) ==
    {e \in (TypeOpen(line) + 2)..Len(line) : IsQuote(line[e])}

TypeMatches(line) ==
    /\ StartsWith(line, TypeWord)
    /\ SpaceRun(line, 5) >= 1
    /\ TypeOpen(line) <= Len(line)
    /\ IsQuote(line[TypeOpen(line)])
    /\ TypeCloses(line) # {}

\* match.group(1)
TypeCmd(line) ==
    LET e == CHOOSE x \in TypeCloses(line) : \A y \in TypeCloses(line) : y <= x
    IN  SubSeq(line, TypeOpen(line) + 1, e - 1)

\* The inner while loop without the Sleep case: only blank lines are skipped.
RECURSIVE SkipBlanksOnly(_, _)
SkipBlanksOnly(lines, j) ==
    IF j > Len(lines) THEN 0
    ELSE IF Strip(lines[j]) = <<>> THEN SkipBlanksOnly(lines, j + 1)
    ELSE j

\* The inner while loop (lines 1026-1039): from line j on, blank lines and
\* Sleep lines are skipped; the first other line ends the loop.  The index
\* of that line, or 0 when the tape ends first.
RECURSIVE SkipToNext(_, _)
SkipToNext(lines, j) ==
    IF j > Len(lines) THEN 0
    ELSE IF Strip(lines[j]) = <<>> THEN SkipToNext(lines, j + 1)
    ELSE IF StartsWith(Strip(lines[j]), SleepPrefix) THEN SkipToNext(lines, j + 1)
    ELSE j

\* any(cmd.startswith(prefix) for prefix in command_prefixes)
AnyPrefix(cmd, prefixes) == \E p \in 1..Len(prefixes) : StartsWith(cmd, prefixes[p])

\* The visibility tracking without the Hide case.
VisibleAfterNoHide(visible, line) == IF line = ShowWord THEN TRUE ELSE visible

\* Lines 1014-1017: the visibility after line `line`
VisibleAfter(visible, line) ==
    IF line = ShowWord THEN TRUE
    ELSE IF line = HideWord THEN FALSE
    ELSE visible

\* Lines 1020-1039: what the line at index i appends to commands
Extracted(lines, i, visible, prefixes) ==
    LET line == Strip(lines[i])
        j == SkipToNext(lines, i + 1)
    IN  IF /\ visible
           /\ StartsWith(line, TypeWord \o <<" ">>)
           /\ TypeMatches(line)
           /\ j # 0
           /\ Strip(lines[j]) = EnterWord
           /\ AnyPrefix(TypeCmd(line), prefixes)
        THEN <<TypeCmd(line)>>
        ELSE <<>>

\* The outer while loop from line i on
RECURSIVE ScanFrom(_, _, _, _)
ScanFrom(lines, i, visible, prefixes) ==
    IF i > Len(lines) THEN <<>>
    ELSE LET v == VisibleAfter(visible, Strip(lines[i]))
         IN  Extracted(lines, i, v, prefixes) \o ScanFrom(lines, i + 1, v, prefixes)

DefaultPrefixes == << <<"w", "t">>, <<"g", "i", "t">> >>

\* extract_commands_from_tape as a function of the file system
extract_commands_from_tape(exists, text, files, prefixes) ==
    LET rendered == render_tape(exists, text, <<>>, files)
    IN  IF rendered.kind = "raised" THEN rendered
        ELSE IF rendered.kind = "None" \/ rendered.text = <<>> THEN List(<<>>)
        ELSE List(ScanFrom(Split(rendered.text), 1, FALSE, prefixes))

(***************************************************************************)
(* Specification SpecExtract: one call of extract_commands_from_tape on    *)
(* tapes of at most MaxLines lines drawn from TapeLines.                   *)
(***************************************************************************)

MaxLines == 4

TapeLines ==
    << ShowWord,
       HideWord,
       EnterWord,
       <<"S", "l", "e", "e", "p", " ", "1">>,
       <<" ">>,
       <<"T", "y", "p", "e", " ", "\"", "w", "t", " ", "a", "\"">>,
       <<"T", "y", "p", "e", " ", "\"", "l", "s", "\"">>,
       <<" ", "T", "y", "p", "e", " ", " ", "'", "g", "i", "t", " ", "b", "'", " ">>,
       <<"T", "y", "p", "e", " ", "w", "t">>,
       <<"S", "o", "u", "r", "c", "e", " ", "s">> >>

\* The tape whose lines are the TapeLines that `pick` numbers
Tape(pick) == Join([k \in 1..Len(pick) |-> TapeLines[pick[k]]])

\* The shared tape a Source directive can name: it shows the session and
\* types a command, leaving the Enter to the tape that sources it.
TapeFiles ==
    (<<"s">> :> Text(Join(<< ShowWord,
                             <<"T", "y", "p", "e", " ", "\"", "w", "t", " ", "c", "\"">> >>)))

InitExtract ==
    /\ ex_pc = "start"
    /\ ex_exists \in BOOLEAN
    /\ IF ex_exists
       THEN \E n \in 0..MaxLines : \E pick \in [1..n -> 1..Len(TapeLines)] :
                ex_template = Tape(pick)
       ELSE ex_template = <<>>
    /\ ex_files = TapeFiles
    /\ ex_prefixes = DefaultPrefixes
    /\ ex_lines = <<>>
    /\ ex_i = 0
    /\ ex_visible = FALSE
    /\ ex_commands = <<>>
    /\ ex_result = Pending
    /\ IdleRender
    /\ IdleSnap
    /\ IdleText
    /\ IdleCalls
    /\ IdleValidation
    /\ IdleSetup

\* lines 1001-1008: render the tape with no replacements; nothing rendered
\* returns [], else the scan starts hidden at the first line
ExtractRender ==
    /\ ex_pc = "start"
    /\ LET rendered == render_tape(ex_exists, ex_template, <<>>, ex_files)
       IN  IF rendered.kind = "raised"
           THEN /\ ex_pc' = "done"
                /\ ex_result' = rendered
                /\ UNCHANGED <<ex_lines, ex_i>>
           ELSE IF rendered.kind = "None" \/ rendered.text = <<>>
           THEN /\ ex_pc' = "done"
                /\ ex_result' = List(<<>>)
                /\ UNCHANGED <<ex_lines, ex_i>>
           ELSE /\ ex_pc' = "scan"
                /\ ex_lines' = Split(rendered.text)
                /\ ex_i' = 1
                /\ UNCHANGED ex_result
    /\ UNCHANGED <<ex_exists, ex_template, ex_files, ex_prefixes, ex_visible, ex_commands>>
    /\ UNCHANGED notExtract

\* lines 1010-1040: one turn of the outer while loop
ExtractLine ==
    /\ ex_pc = "scan"
    /\ ex_i <= Len(ex_lines)
    /\ ex_visible' = VisibleAfter(ex_visible, Strip(ex_lines[ex_i]))
    /\ ex_commands' = ex_commands \o Extracted(ex_lines, ex_i, ex_visible', ex_prefixes)
    /\ ex_i' = ex_i + 1
    /\ UNCHANGED <<ex_pc, ex_exists, ex_template, ex_files, ex_prefixes, ex_lines, ex_result>>
    /\ UNCHANGED notExtract

\* line 1042
ExtractReturn ==
    /\ ex_pc = "scan"
    /\ ex_i > Len(ex_lines)
    /\ ex_pc' = "done"
    /\ ex_result' = List(ex_commands)
    /\ UNCHANGED <<ex_exists, ex_template, ex_files, ex_prefixes, ex_lines, ex_i,
                   ex_visible, ex_commands>>
    /\ UNCHANGED notExtract

NextExtract ==
    \/ ExtractRender
    \/ ExtractLine
    \/ ExtractReturn

SpecExtract == InitExtract /\ [][NextExtract]_vars

\* The step-by-step call returns what the function computes.
ExtractAgrees ==
    ex_pc = "done" =>
        ex_result = extract_commands_from_tape(ex_exists, ex_template, ex_files, ex_prefixes)

(***************************************************************************)
(* C4, C5: the visible part of the rendered tape, stated on its lines      *)
(***************************************************************************)

TapeLine(k) == Strip(ex_lines[k])

\* A Show line precedes line k and no Hide line lies between that Show and k.
Shown(k) ==
    \E s \in 1..(k - 1) :
        /\ TapeLine(s) = ShowWord
        /\ \A h \in (s + 1)..(k - 1) : TapeLine(h) # HideWord

\* The commands c for which line k reads Type, whitespace, a quote, c, a
\* quote, and no further quote.
Typed(k) ==
    LET l == TapeLine(k) IN
    IF ~StartsWith(l, TypeWord \o <<" ">>) THEN {}
    ELSE { SubSeq(l, p[1] + 1, p[2] - 1) :
             p \in { q \in (6..Len(l)) \X (8..Len(l)) :
                       /\ \A x \in 5..(q[1] - 1) : IsSpace(l[x])
                       /\ IsQuote(l[q[1]])
                       /\ q[2] >= q[1] + 2
                       /\ IsQuote(l[q[2]])
                       /\ \A x \in (q[2] + 1)..Len(l) : ~IsQuote(l[x]) } }

\* The next line after k that is neither blank nor a Sleep line is Enter.
FollowedByEnter(k) ==
    \E j \in (k + 1)..Len(ex_lines) :
        /\ TapeLine(j) = EnterWord
        /\ \A m \in (k + 1)..(j - 1) :
              TapeLine(m) = <<>> \/ StartsWith(TapeLine(m), SleepPrefix)

Snapshotable(k) ==
    /\ Shown(k)
    /\ FollowedByEnter(k)
    /\ \E c \in Typed(k) : \E p \in 1..Len(ex_prefixes) : StartsWith(c, ex_prefixes[p])

RECURSIVE VisibleCommands(_)
VisibleCommands(k) ==
    IF k > Len(ex_lines) THEN <<>>
    ELSE (IF Snapshotable(k) THEN <<CHOOSE c \in Typed(k) : TRUE>> ELSE <<>>)
         \o VisibleCommands(k + 1)

\* C4: a step of extract_commands_from_tape adds a command to the list only
\* for a Type line that a Show line precedes with no Hide line between that
\* Show and the Type line (so nothing before the first Show and nothing
\* inside a Hide block is extracted).
C4_OnlyVisibleExtracted ==
    [][ex_commands' # ex_commands =>
          /\ ex_pc = "scan"
          /\ Shown(ex_i)
          /\ \E c \in Typed(ex_i) : ex_commands' = Append(ex_commands, c)]_vars

\* A finished extraction that took a command although the tape also types a
\* snapshotable command, followed by Enter, before its first Show.
C4_Witness ==
    /\ ex_pc = "done"
    /\ ex_result.kind = "list"
    /\ ex_result.list # <<>>
    /\ \E k \in 1..Len(ex_lines) :
          /\ ~Shown(k)
          /\ FollowedByEnter(k)
          /\ \E c \in Typed(k) : StartsWith(c, <<"w", "t">>)

\* C5: the returned list is, in tape order, the commands of the visible
\* Type lines whose next line that is neither blank nor a Sleep line is
\* Enter and whose command starts with one of command_prefixes.
C5_ExactlyVisibleEnteredCommands ==
    (ex_pc = "done" /\ ex_result.kind = "list") => ex_result.list = VisibleCommands(1)

\* A finished extraction that took a command whose Enter follows a Sleep
\* line and left out a visible Type line that no Enter follows.
C5_Witness ==
    /\ ex_pc = "done"
    /\ ex_result.kind = "list"
    /\ \E k \in 1..(Len(ex_lines) - 1) :
          /\ Snapshotable(k)
          /\ StartsWith(TapeLine(k + 1), SleepPrefix)
    /\ \E k \in 1..Len(ex_lines) :
          /\ Shown(k)
          /\ Typed(k) # {}
          /\ ~FollowedByEnter(k)

(***************************************************************************)
(* record_snapshot (lib.py 1045-1135)                                      *)
(***************************************************************************)

\* demo_env.out_dir as written and resolved, and demo_env.repo
OutDir == <<"/", "t">>
OutDirReal == <<"/", "p", "/", "t">>
RepoDir == OutDir \o <<"/", "r">>

\* Lines 1096-1102.  A fixed line is written as one symbol.
ScriptHeader ==
    << <<"# Initialize shell integration">>,
       <<"wt config shell init fish | source">>,
       <<"source ~/.config/fish/completions/wt.fish">>,
       <<"cd ">> \o RepoDir,
       <<>> >>

EchoOpen == <<"e", "c", "h", "o", " ", "'">>
MergeStderr == <<" ", "2", ">", "&", "1">>

\* Lines 1104-1110: the script lines of commands[i..]
RECURSIVE ScriptBody(_, _)
ScriptBody(commands, i) ==
    IF i > Len(commands) THEN <<>>
    ELSE << EchoOpen \o <<"$", " ">> \o commands[i] \o <<"'">>,
            commands[i] \o MergeStderr >>
         \o (IF i < Len(commands) THEN << EchoOpen \o <<"'">> >> ELSE <<>>)
         \o ScriptBody(commands, i + 1)

ScriptLines(commands) == ScriptHeader \o ScriptBody(commands, 1)

\* Lines 1125-1131: rstrip, then the temp paths become a placeholder
Normalized(out) ==
    Replace(Replace(RStrip(out), OutDirReal, <<"<DEMO_DIR>">>), OutDir, <<"<DEMO_DIR>">>)

(***************************************************************************)
(* What fish does with a line of the script.  In fish a single quote opens *)
(* or closes a literal string and is not part of the argument; pieces that *)
(* touch are one argument.  echo prints its argument and a newline.        *)
(***************************************************************************)

\* The argument text with its quotes removed, and whether a quote is open
\* at the end of the line.
RECURSIVE Unquoted(_)
Unquoted(s) ==
    IF s = <<>> THEN <<>>
    ELSE IF Head(s) = "'" THEN Unquoted(Tail(s))
    ELSE <<Head(s)>> \o Unquoted(Tail(s))

QuotesBalanced(s) == Cardinality({i \in 1..Len(s) : s[i] = "'"}) % 2 = 0

EchoWord == <<"e", "c", "h", "o", " ">>

\* The event a line of the script body stands for: an echo prints a line,
\* "c 2>&1" runs c with stderr merged, any other line runs as it is.
FishEvent(line) ==
    IF StartsWith(line, EchoWord)
    THEN [op |-> "print", text |-> Unquoted(From(line, Len(EchoWord) + 1))]
    ELSE IF Len(line) > Len(MergeStderr)
            /\ From(line, Len(line) - Len(MergeStderr) + 1) = MergeStderr
    THEN [op |-> "run", text |-> SubSeq(line, 1, Len(line) - Len(MergeStderr))]
    ELSE [op |-> "run unmerged", text |-> line]

\* What running the script does after its header, in order; fish refuses a
\* script in which a quote stays open.
FishEvents(script) ==
    LET body == SubSeq(script, Len(ScriptHeader) + 1, Len(script))
    IN  IF \E i \in 1..Len(body) : ~QuotesBalanced(body[i])
        THEN <<[op |-> "syntax error", text |-> <<>>]>>
        ELSE [i \in 1..Len(body) |-> FishEvent(body[i])]

(***************************************************************************)
(* Specification SpecSnapshot: one call of record_snapshot on tapes of at  *)
(* most MaxSnapLines lines drawn from SnapLines.                           *)
(***************************************************************************)

MaxSnapLines == 5

SnapLines ==
    << ShowWord,
       EnterWord,
       <<"T", "y", "p", "e", " ", "\"", "w", "t", " ", "a", "\"">>,
       <<"T", "y", "p", "e", " ", "\"", "l", "s", "\"">>,
       <<"T", "y", "p", "e", " ", "'", "g", "i", "t", " ", "b", "'">>,
       <<"T", "y", "p", "e", " ", "\"", "w", "t", " ", "'", "x", "'", "\"">> >>

SnapTape(pick) == Join([k \in 1..Len(pick) |-> SnapLines[pick[k]]])

\* What the fish process can print (stdout + stderr)
FishOutputs ==
    { <<>>,
      <<"o", "k", "\n">>,
      OutDirReal \o <<"/", "x", " ", "\n", "\n">> }

OldSnapshot == Text(<<"o", "l", "d", "\n">>)

InitSnapWith(maxLines) ==
    /\ sn_pc = "start"
    /\ sn_exists \in BOOLEAN
    /\ IF sn_exists
       THEN \E n \in 0..maxLines : \E pick \in [1..n -> 1..Len(SnapLines)] :
                sn_template = SnapTape(pick)
       ELSE sn_template = <<>>
    /\ sn_files = TapeFiles
    /\ sn_commands = <<>>
    /\ sn_script = None
    /\ sn_fish = <<>>
    /\ sn_output = <<>>
    /\ sn_snap0 \in {None, OldSnapshot}
    /\ sn_snap = sn_snap0
    /\ sn_result = Pending

InitSnap == InitSnapWith(MaxSnapLines)

InitSnapshot ==
    /\ InitSnap
    /\ IdleRender /\ IdleExtract /\ IdleText /\ IdleCalls /\ IdleValidation /\ IdleSetup

\* The extraction without the check of line 1077.
SnapExtractUnchecked ==
    /\ sn_pc = "start"
    /\ LET r == extract_commands_from_tape(sn_exists, sn_template, sn_files, DefaultPrefixes)
       IN  IF r.kind = "raised"
           THEN /\ sn_pc' = "done"
                /\ sn_result' = r
                /\ UNCHANGED sn_commands
           ELSE /\ sn_pc' = "script"
                /\ sn_commands' = r.list
                /\ UNCHANGED sn_result
    /\ UNCHANGED <<sn_exists, sn_template, sn_files, sn_script, sn_fish, sn_output,
                   sn_snap, sn_snap0>>
    /\ UNCHANGED notSnap

\* lines 1076-1078: extract the commands; none is a RuntimeError
SnapExtract ==
    /\ sn_pc = "start"
    /\ LET r == extract_commands_from_tape(sn_exists, sn_template, sn_files, DefaultPrefixes)
       IN  IF r.kind = "raised"
           THEN /\ sn_pc' = "done"
                /\ sn_result' = r
                /\ UNCHANGED sn_commands
           ELSE IF r.list = <<>>
           THEN /\ sn_pc' = "done"
                /\ sn_result' = Raised("RuntimeError")
                /\ UNCHANGED sn_commands
           ELSE /\ sn_pc' = "script"
                /\ sn_commands' = r.list
                /\ UNCHANGED sn_result
    /\ UNCHANGED <<sn_exists, sn_template, sn_files, sn_script, sn_fish, sn_output,
                   sn_snap, sn_snap0>>
    /\ UNCHANGED notSnap

\* lines 1096-1114: build the script and write it
SnapWriteScript ==
    /\ sn_pc = "script"
    /\ sn_script' = List(ScriptLines(sn_commands))
    /\ sn_pc' = "fish"
    /\ UNCHANGED <<sn_exists, sn_template, sn_files, sn_commands, sn_fish, sn_output,
                   sn_snap, sn_snap0, sn_result>>
    /\ UNCHANGED notSnap

\* lines 1117-1131: run fish on the script (its return code is not looked
\* at) and normalise what it printed
SnapRunFish ==
    /\ sn_pc = "fish"
    /\ \E rc \in {0, 1}, out \in FishOutputs :
          /\ sn_fish' = Append(sn_fish, rc)
          /\ sn_output' = Normalized(out)
    /\ sn_pc' = "write"
    /\ UNCHANGED <<sn_exists, sn_template, sn_files, sn_commands, sn_script,
                   sn_snap, sn_snap0, sn_result>>
    /\ UNCHANGED notSnap

\* lines 1134-1135: write the snapshot
SnapWrite ==
    /\ sn_pc = "write"
    /\ sn_snap' = Text(sn_output \o <<"\n">>)
    /\ sn_pc' = "done"
    /\ sn_result' = Returned
    /\ UNCHANGED <<sn_exists, sn_template, sn_files, sn_commands, sn_script, sn_fish,
                   sn_output, sn_snap0>>
    /\ UNCHANGED notSnap

NextSnapshot ==
    \/ SnapExtract
    \/ SnapWriteScript
    \/ SnapRunFish
    \/ SnapWrite

SpecSnapshot == InitSnapshot /\ [][NextSnapshot]_vars

(***************************************************************************)
(* C6, C7                                                                  *)
(***************************************************************************)

\* No commands are found in the tape.
NoCommandsFound ==
    extract_commands_from_tape(sn_exists, sn_template, sn_files, DefaultPrefixes) = List(<<>>)

\* C6: when no commands are found in the tape, and so when the tape
\* template does not exist, record_snapshot raises RuntimeError, writes no
\* script file, runs no fish process and leaves output_snap as it was.
C6_NoCommandsRaises ==
    /\ ~sn_exists => NoCommandsFound
    /\ \/ /\ sn_script = None
          /\ sn_fish = <<>>
          /\ sn_snap = sn_snap0
          /\ sn_pc = "start" \/ (sn_pc = "done" /\ sn_result = Raised("RuntimeError"))
       \/ ~NoCommandsFound

\* A call that ended on a tape that exists and types a wt command, though
\* not visibly, with a snapshot already in place.
C6_Witness ==
    /\ sn_pc = "done"
    /\ sn_exists
    /\ NoCommandsFound
    /\ In(<<"T", "y", "p", "e", " ", "\"", "w", "t">>, sn_template)
    /\ sn_snap0 = OldSnapshot

\* What the claim says the script does for commands c1..cn: print "$ c1",
\* run c1 with stderr merged, print a blank line, ..., print "$ cn", run cn.
RunsInOrder(events, commands) ==
    /\ Len(events) = 3 * Len(commands) - 1
    /\ \A i \in 1..Len(commands) :
          /\ events[3 * i - 2] = [op |-> "print", text |-> <<"$", " ">> \o commands[i]]
          /\ events[3 * i - 1] = [op |-> "run", text |-> commands[i]]
          /\ i < Len(commands) => events[3 * i] = [op |-> "print", text |-> <<>>]

\* C7: the script record_snapshot generates runs the extracted commands in
\* tape order, each once, printing the line "$ cmd" right before running
\* cmd with stderr merged, and a blank line between consecutive commands
\* but not after the last.
C7_ScriptRunsCommandsInOrder ==
    sn_script # None => RunsInOrder(FishEvents(sn_script.list), sn_commands)

\* The same for commands that hold no single quote: it holds.
C7_QuoteFreeCommandsRunInOrder ==
    (sn_script # None /\ \A i \in 1..Len(sn_commands) : ~In(<<"'">>, sn_commands[i]))
        => RunsInOrder(FishEvents(sn_script.list), sn_commands)

(***************************************************************************)
(* run, git (lib.py 231-241)                                               *)
(***************************************************************************)

\* What a launch through run() does to its caller when return_code is the
\* return code of the process: subprocess.run(..., check=check) raises
\* CalledProcessError for a non-zero return code when check is true.
runUnchecked(check, return_code) == None

run(check, return_code) ==
    IF check /\ return_code # 0 THEN Raised("CalledProcessError") ELSE None

\* git() passes no check, so the default check=True applies
git(return_code) == run(TRUE, return_code)

(***************************************************************************)
(* record_text (lib.py 924-978)                                            *)
(***************************************************************************)

\* temp_txt = (demo_env.out_dir / ".text-output.txt").resolve()
TempTxt == OutDirReal \o <<"/.text-output.txt">>

OutputWord == <<"O", "u", "t", "p", "u", "t">>

\* The run of characters of s, from index i on, that are not a quote: [^"]+
RECURSIVE NonQuoteRun(_, _)
NonQuoteRun(s, i) == IF i <= Len(s) /\ s[i] # "\"" THEN 1 + NonQuoteRun(s, i + 1) ELSE 0

\* The match of r'^Output\s+"[^"]+"' at the head of s, which starts a line:
\* the index of its closing quote, or 0 when there is no match.
OutputEnd(s) ==
    LET q == 7 + SpaceRun(s, 7)
        r == NonQuoteRun(s, q + 1)
    IN  IF /\ StartsWith(s, OutputWord)
           /\ SpaceRun(s, 7) >= 1
           /\ q <= Len(s) /\ s[q] = "\""
           /\ r >= 1
           /\ q + 1 + r <= Len(s)
        THEN q + 1 + r
        ELSE 0

\* re.sub(r'^Output\s+"[^"]+"', f'Output "{temp_txt}"', rendered, flags=re.MULTILINE)
RECURSIVE SubOutput(_, _)
SubOutput(s, bol) ==
    IF s = <<>> THEN <<>>
    ELSE IF bol /\ OutputEnd(s) # 0
         THEN OutputWord \o <<" ", "\"">> \o TempTxt \o <<"\"">>
              \o SubOutput(From(s, OutputEnd(s) + 1), FALSE)
    ELSE <<Head(s)>> \o SubOutput(Tail(s), Head(s) = "\n")

\* re.sub(rf"^{prefix}.*$", repl, rendered, flags=re.MULTILINE), and with
\* eat the pattern rf"^{prefix}.*$\n?", which also takes the line's newline
RECURSIVE SubLine(_, _, _, _, _)
SubLine(s, bol, prefix, repl, eat) ==
    IF s = <<>> THEN <<>>
    ELSE IF bol /\ StartsWith(s, prefix)
         THEN LET e == Len(prefix) + DotRun(s, Len(prefix) + 1)
                  nl == eat /\ e < Len(s)
              IN  repl \o SubLine(From(s, e + (IF nl THEN 2 ELSE 1)), nl, prefix, repl, eat)
    ELSE <<Head(s)>> \o SubLine(Tail(s), Head(s) = "\n", prefix, repl, eat)

\* f"Set {setting} "
SetWord(setting) == <<"S", "e", "t", " ">> \o setting \o <<" ">>

\* lines 955-965: "Modify for text output"
ForTextOutput(rendered) ==
    LET Width == <<"W", "i", "d", "t", "h">>
        Height == <<"H", "e", "i", "g", "h", "t">>
        FontSize == <<"F", "o", "n", "t", "S", "i", "z", "e">>
        Theme == <<"T", "h", "e", "m", "e">>
        Padding == <<"P", "a", "d", "d", "i", "n", "g">>
        a == SubOutput(rendered, TRUE)
        b == SubLine(a, TRUE, SetWord(Width), SetWord(Width) \o <<"1", "2", "0">>, FALSE)
        c == SubLine(b, TRUE, SetWord(Height), SetWord(Height) \o <<"1", "2", "0">>, FALSE)
        d == SubLine(c, TRUE, SetWord(FontSize), <<>>, TRUE)
        e == SubLine(d, TRUE, SetWord(Theme), <<>>, TRUE)
    IN  SubLine(e, TRUE, SetWord(Padding), <<>>, TRUE)

\* VHS writes temp_txt only when the tape it runs names it as an output.
NamesTempTxt(tape) == In(OutputWord \o <<" ", "\"">> \o TempTxt \o <<"\"">>, tape)

\* A file, known by the call of record_text whose VHS run wrote its
\* content (0: the content is older than the first call).
File(n) == [kind |-> "file", by |-> n]


(***************************************************************************)
(* Specification SpecText: up to MaxCalls calls of record_text, one after  *)
(* the other, for the same demo_env and the same output_txt.               *)
(***************************************************************************)

MaxTextLines == 2
MaxCalls == 2

TextLines ==
    << OutputWord \o <<" ", "\"", "d", ".", "g", "i", "f", "\"">>,
       OutputWord \o <<" ", "d", ".", "g", "i", "f">>,
       SetWord(<<"W", "i", "d", "t", "h">>) \o <<"9">>,
       SetWord(<<"T", "h", "e", "m", "e">>) \o <<"t">>,
       TypeWord \o <<" ", "\"">> \o Token(<<"A">>) \o <<"\"">>,
       SourceWord \o <<" ", "s">> >>

TextTape(pick) == Join([k \in 1..Len(pick) |-> TextLines[pick[k]]])

TextReplacements == << <<<<"A">>, StrVal(<<"w", "t">>)>> >>

\* The outcomes of one VHS run on a tape: its return code, and whether it
\* wrote temp_txt, which it can only do for a tape that names temp_txt.
VhsOutcomes(tape) ==
    { [ran |-> TRUE, rc |-> rc, created |-> c] :
        rc \in {0, 1}, c \in (IF NamesTempTxt(tape) THEN BOOLEAN ELSE {FALSE}) }

InitText ==
    /\ tx_pc = "start"
    /\ tx_calls = 1
    /\ tx_exists \in BOOLEAN
    /\ IF tx_exists
       THEN \E n \in 0..MaxTextLines : \E pick \in [1..n -> 1..Len(TextLines)] :
                tx_template = TextTape(pick)
       ELSE tx_template = <<>>
    /\ tx_tape = None
    /\ tx_temp = None
    /\ tx_out \in {None, File(0)}
    /\ tx_out0 = tx_out
    /\ tx_vhs = NotRun
    /\ tx_result = Pending
    /\ IdleRender
    /\ IdleExtract
    /\ IdleSnap
    /\ IdleCalls
    /\ IdleValidation
    /\ IdleSetup

\* lines 951-969: render, rewrite for text output, write the rendered tape
TextRender ==
    /\ tx_pc = "start"
    /\ LET rendered == render_tape(tx_exists, tx_template, TextReplacements, RenderFiles)
       IN  IF rendered.kind = "raised"
           THEN /\ tx_result' = rendered
                /\ tx_pc' = "done"
                /\ UNCHANGED tx_tape
           ELSE IF rendered = None \/ rendered = Text(<<>>)
           THEN /\ tx_result' = Raised("RuntimeError")
                /\ tx_pc' = "done"
                /\ UNCHANGED tx_tape
           ELSE /\ tx_tape' = Text(ForTextOutput(rendered.text))
                /\ tx_pc' = "vhs"
                /\ UNCHANGED tx_result
    /\ UNCHANGED <<tx_calls, tx_exists, tx_template, tx_temp, tx_out, tx_out0, tx_vhs>>
    /\ UNCHANGED notText

\* lines 970-973: run VHS with check=True; the rendered tape is unlinked
\* whether VHS failed or not
TextRunVhs ==
    /\ tx_pc = "vhs"
    /\ \E o \in VhsOutcomes(tx_tape.text) :
        /\ tx_vhs' = o
        /\ tx_temp' = IF o.created THEN File(tx_calls) ELSE tx_temp
        /\ IF run(TRUE, o.rc) # None
           THEN /\ tx_result' = run(TRUE, o.rc)
                /\ tx_pc' = "done"
           ELSE /\ tx_pc' = "copy"
                /\ UNCHANGED tx_result
    /\ tx_tape' = None
    /\ UNCHANGED <<tx_calls, tx_exists, tx_template, tx_out, tx_out0>>
    /\ UNCHANGED notText

\* lines 975-978: temp_txt.exists() is all that is asked of the file;
\* shutil.copy can fail (OSError), and temp_txt then stays where it is
TextCopy ==
    /\ tx_pc = "copy"
    /\ IF tx_temp = None
       THEN /\ tx_result' = Raised("RuntimeError")
            /\ UNCHANGED <<tx_temp, tx_out>>
       ELSE \E copied \in BOOLEAN :
              IF copied
              THEN /\ tx_out' = tx_temp
                   /\ tx_temp' = None
                   /\ tx_result' = Returned
              ELSE /\ tx_result' = Raised("OSError")
                   /\ UNCHANGED <<tx_temp, tx_out>>
    /\ tx_pc' = "done"
    /\ UNCHANGED <<tx_calls, tx_exists, tx_template, tx_tape, tx_out0, tx_vhs>>
    /\ UNCHANGED notText

\* the caller calls record_text again
TextCall ==
    /\ tx_pc = "done"
    /\ tx_calls < MaxCalls
    /\ tx_pc' = "start"
    /\ tx_calls' = tx_calls + 1
    /\ tx_out0' = tx_out
    /\ tx_vhs' = NotRun
    /\ tx_result' = Pending
    /\ UNCHANGED <<tx_exists, tx_template, tx_tape, tx_temp, tx_out>>
    /\ UNCHANGED notText

NextText ==
    \/ TextRender
    \/ TextRunVhs
    \/ TextCopy
    \/ TextCall

SpecText == InitText /\ [][NextText]_vars

\* C8: a finished call of record_text has written output_txt only when its
\* VHS run exited with 0 and produced the text output file; a VHS run that
\* exited non-zero raised CalledProcessError, a VHS run that exited with 0
\* without producing the file raised RuntimeError, and in both of these
\* cases output_txt is as it was before the call.
C8_OutputOnlyFromSuccessfulVhs ==
    tx_pc = "done" =>
        /\ tx_out # tx_out0 => tx_vhs.ran /\ tx_vhs.rc = 0 /\ tx_vhs.created
        /\ tx_vhs.ran /\ tx_vhs.rc # 0 =>
              tx_result = Raised("CalledProcessError") /\ tx_out = tx_out0
        /\ tx_vhs.ran /\ tx_vhs.rc = 0 /\ ~tx_vhs.created =>
              tx_result = Raised("RuntimeError") /\ tx_out = tx_out0

\* The second call ran VHS, which exited with 0 and wrote no text output
\* file, while the file an earlier call left behind was still there.
C8_StaleOutputCopied ==
    /\ tx_pc = "done"
    /\ tx_calls = 2
    /\ tx_vhs = [ran |-> TRUE, rc |-> 0, created |-> FALSE]
    /\ tx_result = Returned
    /\ tx_out = File(1)

\* The first call of a caller keeps the promise: temp_txt cannot be there
\* unless this call's VHS run wrote it.
C8_FirstCallKeepsPromise ==
    tx_pc = "done" /\ tx_calls = 1 =>
        /\ tx_out # tx_out0 => tx_vhs.ran /\ tx_vhs.rc = 0 /\ tx_vhs.created
        /\ tx_vhs.ran /\ tx_vhs.rc # 0 =>
              tx_result = Raised("CalledProcessError") /\ tx_out = tx_out0
        /\ tx_vhs.ran /\ tx_vhs.rc = 0 /\ ~tx_vhs.created =>
              tx_result = Raised("RuntimeError") /\ tx_out = tx_out0


(***************************************************************************)
(* The subprocesses of prepare_base_repo (lib.py 305-397), build_wt        *)
(* (279-282) and record_vhs (274-276), in the order they are launched.     *)
(* What lies between two launches writes files and starts no process.      *)
(***************************************************************************)

ViaGit(cmd) == [via |-> "git", cmd |-> cmd, check |-> TRUE]
ViaRun(cmd, check) == [via |-> "run", cmd |-> cmd, check |-> check]

\* commit_dated ends in one git commit (line 303); build_wt is one checked
\* cargo build (line 282)
Calls ==
    [ prepare_base_repo |->
        << ViaRun("git init --bare", TRUE),
           ViaGit("init"),
           ViaGit("config user.name"),
           ViaGit("config user.email"),
           ViaGit("config commit.gpgsign"),
           ViaGit("config worktrunk.hints.worktree-path"),
           ViaGit("add README.md"),
           ViaGit("commit Initial commit"),
           ViaGit("branch -m main"),
           ViaGit("remote add origin"),
           ViaGit("push -u origin main"),
           ViaGit("add .gitignore Cargo.toml src/"),
           ViaGit("commit Add Rust project with tests"),
           ViaRun("cargo build --release", FALSE),
           ViaGit("add Cargo.lock"),
           ViaGit("commit Add Cargo.lock"),
           ViaGit("push"),
           ViaRun("cargo build --quiet", TRUE),
           ViaRun("wt config shell install fish", TRUE) >>,
      build_wt |-> << ViaRun("cargo build --quiet", TRUE) >>,
      record_vhs |-> << ViaRun("vhs", TRUE) >> ]

\* What the launch of call c does to the caller when the process exits
\* with return_code
Launch(c, return_code) ==
    IF c.via = "git" THEN git(return_code) ELSE run(c.check, return_code)

InitCalls ==
    /\ su_fn \in DOMAIN Calls
    /\ su_i = 1
    /\ su_rcs = <<>>
    /\ su_result = Pending
    /\ IdleRender
    /\ IdleExtract
    /\ IdleSnap
    /\ IdleText
    /\ IdleValidation
    /\ IdleSetup

\* the function launches its next subprocess and waits for it
CallLaunch ==
    /\ su_fn # "idle"
    /\ su_result = Pending
    /\ su_i <= Len(Calls[su_fn])
    /\ \E return_code \in {0, 1} :
          /\ su_rcs' = Append(su_rcs, return_code)
          /\ IF Launch(Calls[su_fn][su_i], return_code) # None
             THEN /\ su_result' = Launch(Calls[su_fn][su_i], return_code)
                  /\ UNCHANGED su_i
             ELSE /\ su_i' = su_i + 1
                  /\ UNCHANGED su_result
    /\ UNCHANGED su_fn
    /\ UNCHANGED notCalls

\* the function has launched all its subprocesses and returns
CallReturn ==
    /\ su_fn # "idle"
    /\ su_result = Pending
    /\ su_i > Len(Calls[su_fn])
    /\ su_result' = Returned
    /\ UNCHANGED <<su_fn, su_i, su_rcs>>
    /\ UNCHANGED notCalls

NextCalls ==
    \/ CallLaunch
    \/ CallReturn

(***************************************************************************)
(* Specification SpecSubprocess: one of the functions that launch          *)
(* subprocesses runs: prepare_base_repo, build_wt, record_vhs,             *)
(* record_text or record_snapshot.                                         *)
(***************************************************************************)

MaxSubLines == 3

InitSubprocess ==
    \/ InitCalls
    \/ InitText
    \/ /\ InitSnapWith(MaxSubLines)
       /\ IdleRender /\ IdleExtract /\ IdleText /\ IdleCalls /\ IdleValidation
       /\ IdleSetup

NextSubprocess ==
    \/ NextCalls
    \/ NextText
    \/ NextSnapshot

SpecSubprocess == InitSubprocess /\ [][NextSubprocess]_vars

\* The subprocesses that exited with a non-zero return code
FailedCalls == {k \in 1..Len(su_rcs) : su_rcs[k] # 0}
VhsFailed == tx_vhs.ran /\ tx_vhs.rc # 0
FishFailed == sn_fish # <<>> /\ sn_fish[1] # 0

\* C10 as stated: whenever a subprocess launched by one of these functions
\* (through run/git, or the fish process of record_snapshot) has exited
\* with a non-zero return code, the function has raised an exception.
C10_FailingSubprocessRaises ==
    /\ FailedCalls # {} => su_result.kind = "raised"
    /\ VhsFailed => tx_result.kind = "raised"
    /\ FishFailed => sn_result.kind = "raised"

\* C10, amended: a subprocess launched through run/git with check=True
\* that exits non-zero is the last one its function launches, and the
\* function raises CalledProcessError; after a non-zero exit of the
\* cargo build --release of prepare_base_repo (check=False) the function
\* goes on to its next subprocess, and after a non-zero exit of the fish
\* process of record_snapshot the function goes on to write the snapshot,
\* neither raising for it.
C10_CheckedSubprocessRaises ==
    /\ \A k \in FailedCalls :
          IF Calls[su_fn][k].check
          THEN /\ k = Len(su_rcs)
               /\ su_i = k
               /\ su_result = Raised("CalledProcessError")
          ELSE /\ Calls[su_fn][k].cmd = "cargo build --release"
               /\ su_i > k
               /\ k = Len(su_rcs) => su_result = Pending
    /\ VhsFailed => tx_pc = "done" /\ tx_result = Raised("CalledProcessError")
    /\ FishFailed =>
          \/ sn_pc = "write" /\ sn_result = Pending
          \/ sn_pc = "done" /\ sn_result = Returned /\ sn_snap = Text(sn_output \o <<"\n">>)

\* prepare_base_repo went on after its cargo build --release failed, and
\* raised when a later git call failed.
C10_Witness ==
    /\ su_fn = "prepare_base_repo"
    /\ Cardinality(FailedCalls) = 2
    /\ \E k \in FailedCalls : ~Calls[su_fn][k].check
    /\ su_result = Raised("CalledProcessError")


(***************************************************************************)
(* validation.py                                                           *)
(***************************************************************************)

\* TUI_CHECKPOINTS (lines 30-40): demo name |-> checkpoints
TUI_CHECKPOINTS ==
    [ wt_zellij_omnibus |->
        << [frame_number |-> 200,
            expected |-> << <<"O", "p", "u", "s">>, <<"a", "c", "m", "e">>, <<"A", "d", "d", " ", "a", " ", "t", "e", "s", "t">> >>,
            forbidden |-> << <<"c", "o", "m", "m", "a", "n", "d", " ", "n", "o", "t", " ", "f", "o", "u", "n", "d">>, <<"U", "n", "k", "n", "o", "w", "n", " ", "c", "o", "m", "m", "a", "n", "d">> >>],
           [frame_number |-> 1750,
            expected |-> << <<"B", "r", "a", "n", "c", "h">>, <<"m", "a", "i", "n">>, <<"b", "i", "l", "l", "i", "n", "g">> >>,
            forbidden |-> << <<"C", "O", "N", "F", "L", "I", "C", "T">>, <<"e", "r", "r", "o", "r", ":">>, <<"f", "a", "i", "l", "e", "d">> >>] >> ]

\* check_dependencies (lines 43-52): the tools "which" does not find, in
\* the order they are asked for
Tools == << <<"ffmpeg">>, <<"tesseract">> >>

RECURSIVE MissingFrom(_, _)
MissingFrom(which, k) ==
    IF k > Len(Tools) THEN <<>>
    ELSE (IF which[k] # 0 THEN <<Tools[k]>> ELSE <<>>) \o MissingFrom(which, k + 1)

check_dependencies(which) == MissingFrom(which, 1)

extract_frameOnExitCode(returncode, written) == returncode = 0

\* extract_frame (lines 55-69): ffmpeg exited with returncode and did or
\* did not write output_path
extract_frame(returncode, written) == returncode = 0 /\ written

\* A subprocess.run of ffmpeg or tesseract: its exit code, and whether it
\* left its output file
Ran(tool, returncode, written) ==
    [tool |-> tool, returncode |-> returncode, written |-> written]

\* ocr_image (lines 72-87): tesseract exited with returncode and wrote
\* output (None: no file)
ocr_image(returncode, output) ==
    IF returncode = 0 /\ output # None THEN output.text ELSE <<>>

\* str.lower() on the letters of the ASCII alphabet
UpperCase == <<"A", "B", "C", "D", "E", "F", "G", "H", "I", "J", "K", "L", "M", "N", "O", "P", "Q", "R", "S", "T", "U", "V", "W", "X", "Y", "Z">>
LowerCase == <<"a", "b", "c", "d", "e", "f", "g", "h", "i", "j", "k", "l", "m", "n", "o", "p", "q", "r", "s", "t", "u", "v", "w", "x", "y", "z">>

LowerChar(c) ==
    IF \E i \in 1..Len(UpperCase) : UpperCase[i] = c
    THEN LowerCase[CHOOSE i \in 1..Len(UpperCase) : UpperCase[i] = c]
    ELSE c

NotLowered(s) == s

Lower(s) == [i \in 1..Len(s) |-> LowerChar(s[i])]

\* The messages of validate_checkpoint (lines 103, 108, 115, 120)
ExtractFailed(frame_number) == <<"Failed to extract frame ">> \o DecStr(frame_number)
OcrFailed(frame_number) == <<"OCR failed for frame ">> \o DecStr(frame_number)
NotFound(pattern) == <<"Expected pattern not found: '">> \o pattern \o <<"'">>
Found(pattern) == <<"Forbidden pattern found: '">> \o pattern \o <<"'">>

\* lines 113-115 and 118-120: the errors of the patterns k.. of a list
RECURSIVE ExpectedErrors(_, _, _)
ExpectedErrors(expected, text_lower, k) ==
    IF k > Len(expected) THEN <<>>
    ELSE (IF ~In(Lower(expected[k]), text_lower) THEN <<NotFound(expected[k])>> ELSE <<>>)
         \o ExpectedErrors(expected, text_lower, k + 1)

RECURSIVE ForbiddenErrors(_, _, _)
ForbiddenErrors(forbidden, text_lower, k) ==
    IF k > Len(forbidden) THEN <<>>
    ELSE (IF In(Lower(forbidden[k]), text_lower) THEN <<Found(forbidden[k])>> ELSE <<>>)
         \o ForbiddenErrors(forbidden, text_lower, k + 1)

\* validate_checkpoint (lines 90-122) as a function of what extract_frame
\* and ocr_image returned
validate_checkpoint(frame_number, expected, forbidden, extracted, text) ==
    IF ~extracted THEN <<ExtractFailed(frame_number)>>
    ELSE IF text = <<>> THEN <<OcrFailed(frame_number)>>
    ELSE ExpectedErrors(expected, Lower(text), 1) \o ForbiddenErrors(forbidden, Lower(text), 1)

\* "; ".join(errors), ", ".join(missing)
RECURSIVE JoinWith(_, _)
JoinWith(sep, ls) ==
    IF ls = <<>> THEN <<>>
    ELSE IF Len(ls) = 1 THEN ls[1]
    ELSE ls[1] \o sep \o JoinWith(sep, Tail(ls))

\* f"Frame {frame_number}: {'; '.join(errors)}" (line 157)
FrameEntry(frame_number, errors) ==
    <<"Frame ">> \o DecStr(frame_number) \o <<":", " ">> \o JoinWith(<<";", " ">>, errors)

(***************************************************************************)
(* Specification SpecCheckpoint: one call of validate_checkpoint, step by  *)
(* step, on a bounded family of checkpoints and OCR texts.                 *)
(***************************************************************************)

MaxPatterns == 2
MaxOcrLen == 2

PatternPool == << <<"a">>, <<"A", "b">>, <<"B">> >>
OcrAlphabet == <<"a", "A", "b">>

InitCheckpoint ==
    /\ vc_pc = "extract"
    /\ vc_frame \in {200, 1750}
    /\ \E n \in 0..MaxPatterns : \E pick \in [1..n -> 1..Len(PatternPool)] :
          vc_expected = [k \in 1..n |-> PatternPool[pick[k]]]
    /\ \E n \in 0..MaxPatterns : \E pick \in [1..n -> 1..Len(PatternPool)] :
          vc_forbidden = [k \in 1..n |-> PatternPool[pick[k]]]
    /\ vc_text = <<>>
    /\ vc_k = 0
    /\ vc_errors = <<>>
    /\ vc_result = Pending
    /\ vc_tools = <<>>
    /\ IdleDemo
    /\ IdleDownload
    /\ IdleSetup
    /\ IdleRender
    /\ IdleExtract
    /\ IdleSnap
    /\ IdleText
    /\ IdleCalls

\* lines 98-103: extract the frame
CheckpointExtract ==
    /\ vc_pc = "extract"
    /\ \E returncode \in {0, 1}, written \in BOOLEAN :
          /\ vc_tools' = Append(vc_tools, Ran("ffmpeg", returncode, written))
          /\ IF ~extract_frame(returncode, written)
             THEN /\ vc_result' = List(<<ExtractFailed(vc_frame)>>)
                  /\ vc_pc' = "done"
             ELSE /\ vc_pc' = "ocr"
                  /\ UNCHANGED vc_result
    /\ UNCHANGED <<vc_frame, vc_expected, vc_forbidden, vc_text, vc_k, vc_errors>>
    /\ UNCHANGED notCheck

\* lines 105-110: OCR the frame
CheckpointOcr ==
    /\ vc_pc = "ocr"
    /\ \E returncode \in {0, 1}, n \in 0..MaxOcrLen :
       \E pick \in [1..n -> 1..Len(OcrAlphabet)], written \in BOOLEAN :
          /\ vc_text' = ocr_image(returncode,
                                  IF written THEN Text([k \in 1..n |-> OcrAlphabet[pick[k]]])
                                  ELSE None)
          /\ vc_tools' = Append(vc_tools, Ran("tesseract", returncode, written))
    /\ IF vc_text' = <<>>
       THEN /\ vc_result' = List(<<OcrFailed(vc_frame)>>)
            /\ vc_pc' = "done"
            /\ UNCHANGED vc_k
       ELSE /\ vc_pc' = "expected"
            /\ vc_k' = 1
            /\ UNCHANGED vc_result
    /\ UNCHANGED <<vc_frame, vc_expected, vc_forbidden, vc_errors>>
    /\ UNCHANGED notCheck

\* lines 113-115: one turn of the loop over expected, or its end
CheckpointExpected ==
    /\ vc_pc = "expected"
    /\ IF vc_k <= Len(vc_expected)
       THEN /\ vc_errors' =
                  IF ~In(Lower(vc_expected[vc_k]), Lower(vc_text))
                  THEN Append(vc_errors, NotFound(vc_expected[vc_k]))
                  ELSE vc_errors
            /\ vc_k' = vc_k + 1
            /\ UNCHANGED vc_pc
       ELSE /\ vc_pc' = "forbidden"
            /\ vc_k' = 1
            /\ UNCHANGED vc_errors
    /\ UNCHANGED <<vc_frame, vc_expected, vc_forbidden, vc_text, vc_result, vc_tools>>
    /\ UNCHANGED notCheck

\* lines 118-122: one turn of the loop over forbidden, or return errors
CheckpointForbidden ==
    /\ vc_pc = "forbidden"
    /\ IF vc_k <= Len(vc_forbidden)
       THEN /\ vc_errors' =
                  IF In(Lower(vc_forbidden[vc_k]), Lower(vc_text))
                  THEN Append(vc_errors, Found(vc_forbidden[vc_k]))
                  ELSE vc_errors
            /\ vc_k' = vc_k + 1
            /\ UNCHANGED <<vc_pc, vc_result>>
       ELSE /\ vc_pc' = "done"
            /\ vc_result' = List(vc_errors)
            /\ UNCHANGED <<vc_k, vc_errors>>
    /\ UNCHANGED <<vc_frame, vc_expected, vc_forbidden, vc_text, vc_tools>>
    /\ UNCHANGED notCheck

NextCheckpoint ==
    \/ CheckpointExtract
    \/ CheckpointOcr
    \/ CheckpointExpected
    \/ CheckpointForbidden

SpecCheckpoint == InitCheckpoint /\ [][NextCheckpoint]_vars

\* The steps and the function agree once the frame has been read.
CheckpointAgrees ==
    vc_pc = "done" /\ vc_k > 0 =>
        vc_result = List(validate_checkpoint(vc_frame, vc_expected, vc_forbidden, TRUE, vc_text))

(***************************************************************************)
(* C2                                                                      *)
(***************************************************************************)

\* Two characters are the same letter, whatever their case.
SameLetter(c, d) ==
    \/ c = d
    \/ \E i \in 1..Len(UpperCase) : {c, d} = {UpperCase[i], LowerCase[i]}

\* pattern occurs in text, compared case-insensitively
Occurs(pattern, text) ==
    \E at \in 0..(Len(text) - Len(pattern)) :
        \A k \in 1..Len(pattern) : SameLetter(pattern[k], text[at + k])

AbsentExpected == {k \in 1..Len(vc_expected) : ~Occurs(vc_expected[k], vc_text)}
PresentForbidden == {k \in 1..Len(vc_forbidden) : Occurs(vc_forbidden[k], vc_text)}

\* The returned list holds one error for each absent expected pattern and
\* one for each present forbidden pattern, and is empty exactly when there
\* is none of either.
OneErrorEach ==
    /\ vc_result.kind = "list"
    /\ Len(vc_result.list) = Cardinality(AbsentExpected) + Cardinality(PresentForbidden)
    /\ \A k \in AbsentExpected : \E e \in 1..Len(vc_result.list) :
          vc_result.list[e] = NotFound(vc_expected[k])
    /\ \A k \in PresentForbidden : \E e \in 1..Len(vc_result.list) :
          vc_result.list[e] = Found(vc_forbidden[k])
    /\ vc_result.list = <<>> <=> AbsentExpected = {} /\ PresentForbidden = {}

\* The frame was extracted and OCR has been run on it.
FrameRead == vc_pc = "done" /\ vc_result # List(<<ExtractFailed(vc_frame)>>)

\* C2 as stated: for every checkpoint and every OCR result for its frame,
\* the returned error list holds one error for each expected pattern absent
\* from the text and one for each forbidden pattern present in it, compared
\* case-insensitively, and is empty exactly when there is none of either.
C2_OneErrorPerPattern == FrameRead => OneErrorEach

\* C2, amended: the same, for every OCR result that is not empty.
C2_OneErrorPerPatternOfText ==
    FrameRead /\ vc_text # <<>> => OneErrorEach

\* A text in upper case, an expected pattern that is absent from it and a
\* forbidden pattern in lower case that is present in it.
C2_Witness ==
    /\ vc_pc = "done"
    /\ vc_text = <<"A", "A">>
    /\ vc_expected = << <<"B">> >>
    /\ vc_forbidden = << <<"a">> >>
    /\ vc_result = List(<<NotFound(<<"B">>), Found(<<"a">>)>>)


(***************************************************************************)
(* Specification SpecValidate: one call of validate_tui_demo               *)
(* (validation.py 125-159) on a GIF whose frames extract and read          *)
(* one way or another.                                                     *)
(***************************************************************************)

DemoNames == {"wt_zellij_omnibus", "wt_other"}

\* What tesseract can read in a frame
OcrTexts ==
    { <<>>,
      <<"o", "p", "u", "s", " ", "A", "C", "M", "E", "\n", "a", "d", "d", " ", "a", " ", "t", "e", "s", "t">>,
      <<"O", "p", "u", "s", "\n", "z", "s", "h", ":", " ", "c", "o", "m", "m", "a", "n", "d", " ", "n", "o", "t", " ", "f", "o", "u", "n", "d">>,
      <<"b", "r", "a", "n", "c", "h", " ", "M", "a", "i", "n", " ", "B", "i", "l", "l", "i", "n", "g">>,
      <<"B", "r", "a", "n", "c", "h", " ", "m", "a", "i", "n", " ", "b", "i", "l", "l", "i", "n", "g", "\n", "e", "r", "r", "o", "r", ":", " ", "F", "A", "I", "L", "E", "D">>,
      <<" ">> }

\* What ffmpeg and tesseract make of one frame
FrameOutcomes == [extracted : BOOLEAN, text : OcrTexts]

InitValidate ==
    /\ vd_pc = "start"
    /\ vd_demo \in DemoNames
    /\ vd_gif \in BOOLEAN
    /\ vd_which \in [1..Len(Tools) -> {0, 1}]
    /\ vd_frames \in [1..Len(TUI_CHECKPOINTS["wt_zellij_omnibus"]) -> FrameOutcomes]
    /\ vd_i = 0
    /\ vd_errors = <<>>
    /\ vd_all = <<>>
    /\ vd_result = Pending
    /\ IdleCheck
    /\ IdleDownload
    /\ IdleSetup
    /\ IdleRender
    /\ IdleExtract
    /\ IdleSnap
    /\ IdleText
    /\ IdleCalls

\* lines 135-148: the three ways out before any frame is looked at
ValidateStart ==
    /\ vd_pc = "start"
    /\ IF vd_demo \notin DOMAIN TUI_CHECKPOINTS
       THEN /\ vd_result' = List(<< <<"No checkpoints defined for demo: ", vd_demo>> >>)
            /\ vd_pc' = "done"
            /\ UNCHANGED vd_i
       ELSE IF ~vd_gif
       THEN /\ vd_result' = List(<< <<"GIF not found: ", "gif_path">> >>)
            /\ vd_pc' = "done"
            /\ UNCHANGED vd_i
       ELSE IF check_dependencies(vd_which) # <<>>
       THEN /\ vd_result' =
                  List(<< <<"Missing required tools: ">>
                          \o JoinWith(<<",", " ">>, check_dependencies(vd_which)) >>)
            /\ vd_pc' = "done"
            /\ UNCHANGED vd_i
       ELSE /\ vd_pc' = "frames"
            /\ vd_i' = 1
            /\ UNCHANGED vd_result
    /\ UNCHANGED <<vd_demo, vd_gif, vd_which, vd_frames, vd_errors, vd_all>>
    /\ UNCHANGED notDemo

ValidateFrameAlways ==
    /\ vd_pc = "frames"
    /\ vd_i <= Len(TUI_CHECKPOINTS[vd_demo])
    /\ LET c == TUI_CHECKPOINTS[vd_demo][vd_i]
           errors == validate_checkpoint(c.frame_number, c.expected, c.forbidden,
                                         vd_frames[vd_i].extracted, vd_frames[vd_i].text)
       IN  /\ vd_errors' = Append(vd_errors, errors)
           /\ vd_all' = Append(vd_all, FrameEntry(c.frame_number, errors))
    /\ vd_i' = vd_i + 1
    /\ UNCHANGED <<vd_pc, vd_demo, vd_gif, vd_which, vd_frames, vd_result>>
    /\ UNCHANGED notDemo

\* lines 152-157: one turn of the loop over the checkpoints
ValidateFrame ==
    /\ vd_pc = "frames"
    /\ vd_i <= Len(TUI_CHECKPOINTS[vd_demo])
    /\ LET c == TUI_CHECKPOINTS[vd_demo][vd_i]
           errors == validate_checkpoint(c.frame_number, c.expected, c.forbidden,
                                         vd_frames[vd_i].extracted, vd_frames[vd_i].text)
       IN  /\ vd_errors' = Append(vd_errors, errors)
           /\ vd_all' = IF errors # <<>>
                        THEN Append(vd_all, FrameEntry(c.frame_number, errors))
                        ELSE vd_all
    /\ vd_i' = vd_i + 1
    /\ UNCHANGED <<vd_pc, vd_demo, vd_gif, vd_which, vd_frames, vd_result>>
    /\ UNCHANGED notDemo

\* line 159: return all_errors
ValidateReturn ==
    /\ vd_pc = "frames"
    /\ vd_i > Len(TUI_CHECKPOINTS[vd_demo])
    /\ vd_result' = List(vd_all)
    /\ vd_pc' = "done"
    /\ UNCHANGED <<vd_demo, vd_gif, vd_which, vd_frames, vd_i, vd_errors, vd_all>>
    /\ UNCHANGED notDemo

NextValidate ==
    \/ ValidateStart
    \/ ValidateFrame
    \/ ValidateReturn

SpecValidate == InitValidate /\ [][NextValidate]_vars

(***************************************************************************)
(* C9                                                                      *)
(***************************************************************************)

\* The demo has checkpoints, the GIF exists, ffmpeg and tesseract are there.
CanValidate ==
    /\ vd_demo \in DOMAIN TUI_CHECKPOINTS
    /\ vd_gif
    /\ \A k \in 1..Len(Tools) : vd_which[k] = 0

\* The checkpoints whose validate_checkpoint result is not empty
FailedCheckpoints == {i \in 1..Len(vd_errors) : vd_errors[i] # <<>>}

\* The e-th smallest element of a set of numbers
Nth(S, e) == CHOOSE i \in S : Cardinality({j \in S : j < i}) = e - 1

\* C9: when the demo has checkpoints, the GIF exists and ffmpeg and
\* tesseract are available, the list validate_tui_demo returns has exactly
\* one entry "Frame N: ..." per checkpoint whose validate_checkpoint result
\* is not empty, in checkpoint order, and it is empty if and only if every
\* checkpoint yields no errors; in the other cases it is not empty.
C9_OneEntryPerFailedCheckpoint ==
    vd_pc = "done" =>
        /\ vd_result.kind = "list"
        /\ IF CanValidate
           THEN /\ Len(vd_errors) = Len(TUI_CHECKPOINTS[vd_demo])
                /\ \A i \in 1..Len(vd_errors) :
                      LET c == TUI_CHECKPOINTS[vd_demo][i]
                      IN  vd_errors[i] =
                            validate_checkpoint(c.frame_number, c.expected, c.forbidden,
                                                vd_frames[i].extracted, vd_frames[i].text)
                /\ Len(vd_result.list) = Cardinality(FailedCheckpoints)
                /\ \A e \in 1..Len(vd_result.list) :
                      LET i == Nth(FailedCheckpoints, e)
                          c == TUI_CHECKPOINTS[vd_demo][i]
                      IN  /\ StartsWith(vd_result.list[e],
                                        <<"Frame ">> \o DecStr(c.frame_number) \o <<":", " ">>)
                          /\ \A k \in 1..Len(vd_errors[i]) :
                                In(vd_errors[i][k], vd_result.list[e])
                /\ vd_result.list = <<>> <=> \A i \in 1..Len(vd_errors) : vd_errors[i] = <<>>
           ELSE vd_result.list # <<>>

\* The first frame passes in spite of its case, the second frame shows a
\* forbidden pattern: one entry, for frame 1750.
C9_Witness ==
    /\ vd_pc = "done"
    /\ CanValidate
    /\ vd_frames[1] = [extracted |-> TRUE, text |-> <<"o", "p", "u", "s", " ", "A", "C", "M", "E", "\n", "a", "d", "d", " ", "a", " ", "t", "e", "s", "t">>]
    /\ vd_frames[2] = [extracted |-> TRUE, text |-> <<"B", "r", "a", "n", "c", "h", " ", "m", "a", "i", "n", " ", "b", "i", "l", "l", "i", "n", "g", "\n", "e", "r", "r", "o", "r", ":", " ", "F", "A", "I", "L", "E", "D">>]
    /\ Len(vd_result.list) = 1
    /\ StartsWith(vd_result.list[1], <<"Frame ", "1", "7", "5", "0", ":", " ">>)


(***************************************************************************)
(* _download_file (lib.py 60-75)                                           *)
(***************************************************************************)

\* What urlretrieve has written: the whole of the download of process p,
\* or a part of it
Downloaded(p) == [kind |-> "file", by |-> p, whole |-> TRUE]
Partial(p) == [kind |-> "file", by |-> p, whole |-> FALSE]

\* A file that was at dest before any of the processes started
Older == [kind |-> "file", by |-> 0, whole |-> TRUE]

(***************************************************************************)
(* Specification SpecDownload: NumProcs processes call _download_file for  *)
(* the same dest at the same time; their steps interleave.                 *)
(***************************************************************************)

NumProcs == 2

Procs == 1..NumProcs

InitDownload ==
    /\ dl_pc = [p \in Procs |-> "mkdir"]
    /\ dl_parent \in BOOLEAN
    /\ dl_temp = [p \in Procs |-> None]
    /\ dl_dest \in (IF dl_parent THEN {None, Older} ELSE {None})
    /\ dl_result = [p \in Procs |-> Pending]
    /\ IdleSetup
    /\ IdleCheck
    /\ IdleDemo
    /\ IdleRender
    /\ IdleExtract
    /\ IdleSnap
    /\ IdleText
    /\ IdleCalls

\* line 65: dest.parent.mkdir(parents=True, exist_ok=True); line 67: the
\* temp path holds os.getpid(), so each process has its own
DownloadMkdir(p) ==
    /\ dl_pc[p] = "mkdir"
    /\ dl_parent' = TRUE
    /\ dl_pc' = [dl_pc EXCEPT ![p] = "retrieve"]
    /\ UNCHANGED <<dl_temp, dl_dest, dl_result>>
    /\ UNCHANGED notDownload

DownloadRetrieveSilent(p) ==
    /\ dl_pc[p] = "retrieve"
    /\ \E got \in {Downloaded(p), Partial(p)} : dl_temp' = [dl_temp EXCEPT ![p] = got]
    /\ dl_pc' = [dl_pc EXCEPT ![p] = "exists"]
    /\ UNCHANGED <<dl_parent, dl_dest, dl_result>>
    /\ UNCHANGED notDownload

\* line 69: urlretrieve writes temp; when it fails it raises and may leave
\* a part of the file behind
DownloadRetrieve(p) ==
    /\ dl_pc[p] = "retrieve"
    /\ \/ /\ dl_temp' = [dl_temp EXCEPT ![p] = Downloaded(p)]
          /\ dl_pc' = [dl_pc EXCEPT ![p] = "exists"]
          /\ UNCHANGED dl_result
       \/ /\ \E left \in {None, Partial(p)} : dl_temp' = [dl_temp EXCEPT ![p] = left]
          /\ dl_pc' = [dl_pc EXCEPT ![p] = "unlink"]
          /\ dl_result' = [dl_result EXCEPT ![p] = Raised("URLError")]
    /\ UNCHANGED <<dl_parent, dl_dest>>
    /\ UNCHANGED notDownload

\* line 71: if not dest.exists()
DownloadExists(p) ==
    /\ dl_pc[p] = "exists"
    /\ dl_pc' = [dl_pc EXCEPT ![p] = IF dl_dest = None THEN "rename" ELSE "unlink"]
    /\ UNCHANGED <<dl_parent, dl_temp, dl_dest, dl_result>>
    /\ UNCHANGED notDownload

\* line 72: temp.rename(dest); on Linux and macOS, the platforms
\* _detect_platform accepts, rename replaces a dest that exists
DownloadRename(p) ==
    /\ dl_pc[p] = "rename"
    /\ dl_dest' = dl_temp[p]
    /\ dl_temp' = [dl_temp EXCEPT ![p] = None]
    /\ dl_pc' = [dl_pc EXCEPT ![p] = "unlink"]
    /\ UNCHANGED <<dl_parent, dl_result>>
    /\ UNCHANGED notDownload

\* lines 73-74: finally temp.unlink(missing_ok=True), then return or let
\* the exception of urlretrieve through
DownloadUnlink(p) ==
    /\ dl_pc[p] = "unlink"
    /\ dl_temp' = [dl_temp EXCEPT ![p] = None]
    /\ dl_pc' = [dl_pc EXCEPT ![p] = "done"]
    /\ dl_result' = [dl_result EXCEPT ![p] =
                        IF dl_result[p] = Pending THEN Returned ELSE dl_result[p]]
    /\ UNCHANGED <<dl_parent, dl_dest>>
    /\ UNCHANGED notDownload

NextDownload ==
    \E p \in Procs :
        \/ DownloadMkdir(p)
        \/ DownloadRetrieve(p)
        \/ DownloadExists(p)
        \/ DownloadRename(p)
        \/ DownloadUnlink(p)

SpecDownload == InitDownload /\ [][NextDownload]_vars

\* C1: a process moves its temp file onto dest only if dest does not exist
\* at the moment of the move: in every interleaving, once dest exists no
\* step of any process replaces it.
C1_DestNeverReplaced == [][dl_dest # None => dl_dest' = dl_dest]_vars

\* What the temp file does give: dest only ever holds a whole download, or
\* the file that was there before.
C1_DestIsWhole == dl_dest # None => dl_dest.whole

\* Both processes have moved their download onto dest, one after the other.
C1_BothRenamed ==
    /\ \A p \in Procs : dl_pc[p] = "done" /\ dl_result[p] = Returned
    /\ dl_dest = Downloaded(2)


(***************************************************************************)
(* record_all_themes (lib.py 1174-1217)                                    *)
(***************************************************************************)

\* THEMES and format_theme_for_vhs come from themes.py; the docstring of
\* record_all_themes names the themes "light" and "dark".  What
\* format_theme_for_vhs returns for a theme is one symbol.
THEMES == {"light", "dark"}
format_theme_for_vhs(theme_name) == <<"theme of ", theme_name>>

\* SIZE_DOCS (line 1149)
SIZE_DOCS == [width |-> 1600, height |-> 900, fontsize |-> 24]

\* lines 1200-1207: {**base_replacements, "OUTPUT_GIF": ..., ...}, with the
\* DEMO_REPO entry of build_tape_replacements (lines 1152-1171)
ThemeReplacements(theme_name) ==
    << << <<"DEMO_REPO">>, StrVal(RepoDir) >>,
       << <<"OUTPUT_GIF">>, StrVal(OutDir \o <<"/", theme_name, ".gif">>) >>,
       << <<"THEME">>, StrVal(format_theme_for_vhs(theme_name)) >>,
       << <<"WIDTH">>, IntVal(SIZE_DOCS.width) >>,
       << <<"HEIGHT">>, IntVal(SIZE_DOCS.height) >>,
       << <<"FONTSIZE">>, IntVal(SIZE_DOCS.fontsize) >> >>

\* The tape templates of the demos, cut down: an empty one, one that uses
\* the tokens of a theme, one that sources the shared file.
ThemeTemplates ==
    { <<>>,
      OutputWord \o <<" ">> \o Token(<<"OUTPUT_GIF">>) \o <<"\n">>
        \o SetWord(<<"T", "h", "e", "m", "e">>) \o Token(<<"THEME">>) \o <<"\n">>
        \o SetWord(<<"W", "i", "d", "t", "h">>) \o Token(<<"WIDTH">>),
      SourceWord \o <<" ", "s", "\n">> \o TypeWord \o <<" ", "\"", "w", "t", "\"">> }

\* output_gifs: a dict, so its theme names are distinct
ThemeOrders ==
    { <<>>, <<"light">>, <<"dark">>, <<"light", "dark">>, <<"dark", "light">> }

InitThemes ==
    /\ th_pc = "render"
    /\ th_exists \in BOOLEAN
    /\ th_template \in (IF th_exists THEN ThemeTemplates ELSE {<<>>})
    /\ th_gifs \in ThemeOrders
    /\ th_i = 1
    /\ th_tape = None
    /\ th_runs = <<>>
    /\ th_result = Pending
    /\ QuietThemes

\* lines 1198-1213: the next theme: render the tape for it and write it to
\* .rendered.tape; a tape that renders to nothing is skipped
ThemeRender ==
    /\ th_pc = "render"
    /\ th_i <= Len(th_gifs)
    /\ LET rendered == render_tape(th_exists, th_template,
                                   ThemeReplacements(th_gifs[th_i]), RenderFiles)
       IN  IF rendered.kind = "raised"
           THEN /\ th_result' = rendered
                /\ th_pc' = "done"
                /\ UNCHANGED <<th_i, th_tape>>
           ELSE IF rendered = None \/ rendered = Text(<<>>)
           THEN /\ th_i' = th_i + 1
                /\ UNCHANGED <<th_pc, th_tape, th_result>>
           ELSE /\ th_tape' = rendered
                /\ th_pc' = "record"
                /\ UNCHANGED <<th_i, th_result>>
    /\ UNCHANGED <<th_exists, th_template, th_gifs, th_runs>>
    /\ UNCHANGED notThemes

ThemeRecordOn ==
    /\ th_pc = "record"
    /\ \E return_code \in {0, 1} :
          th_runs' = Append(th_runs, [theme |-> th_gifs[th_i], rc |-> return_code])
    /\ th_tape' = None
    /\ th_i' = th_i + 1
    /\ th_pc' = "render"
    /\ UNCHANGED <<th_exists, th_template, th_gifs, th_result>>
    /\ UNCHANGED notThemes

\* lines 1215-1217: record_vhs, which raises when VHS exits non-zero, then
\* unlink the rendered tape and go on to the next theme
ThemeRecord ==
    /\ th_pc = "record"
    /\ \E return_code \in {0, 1} :
          /\ th_runs' = Append(th_runs, [theme |-> th_gifs[th_i], rc |-> return_code])
          /\ IF run(TRUE, return_code) # None
             THEN /\ th_result' = run(TRUE, return_code)
                  /\ th_pc' = "done"
                  /\ UNCHANGED <<th_i, th_tape>>
             ELSE /\ th_tape' = None
                  /\ th_i' = th_i + 1
                  /\ th_pc' = "render"
                  /\ UNCHANGED th_result
    /\ UNCHANGED <<th_exists, th_template, th_gifs>>
    /\ UNCHANGED notThemes

\* the loop is over: the function returns
ThemesReturn ==
    /\ th_pc = "render"
    /\ th_i > Len(th_gifs)
    /\ th_result' = Returned
    /\ th_pc' = "done"
    /\ UNCHANGED <<th_exists, th_template, th_gifs, th_i, th_tape, th_runs>>
    /\ UNCHANGED notThemes

NextThemes ==
    \/ ThemeRender
    \/ ThemeRecord
    \/ ThemesReturn

(***************************************************************************)
(* validate_tui_demo_verbose (validation.py 162-203)                       *)
(***************************************************************************)

\* (success, output_message)
Verdict(success, message) == [kind |-> "verdict", success |-> success, message |-> message]

\* The marks of the report: "TICK" and "CROSS" stand for the two
\* check-mark characters of the source.
PassedLine(frame_number) == <<" ", " ", "TICK", " Frame ">> \o DecStr(frame_number)
FailedLine(frame_number) == <<" ", " ", "CROSS", " Frame ">> \o DecStr(frame_number)
ErrorLines(errors) == [k \in 1..Len(errors) |-> <<" ", " ", " ", " ", "-", " ">> \o errors[k]]

InitVerbose ==
    /\ vv_pc = "start"
    /\ vv_demo \in DemoNames
    /\ vv_gif \in BOOLEAN
    /\ vv_which \in [1..Len(Tools) -> {0, 1}]
    /\ vv_frames \in [1..Len(TUI_CHECKPOINTS["wt_zellij_omnibus"]) -> FrameOutcomes]
    /\ vv_i = 0
    /\ vv_errors = <<>>
    /\ vv_lines = << <<"Validating ", vv_demo, ": ", "gif_path">> >>
    /\ vv_passed = TRUE
    /\ vv_result = Pending
    /\ QuietVerbose

\* lines 170-180: the three ways out before any frame is looked at
VerboseStart ==
    /\ vv_pc = "start"
    /\ IF vv_demo \notin DOMAIN TUI_CHECKPOINTS
       THEN /\ vv_result' = Verdict(FALSE, <<"No checkpoints defined for demo: ", vv_demo>>)
            /\ vv_pc' = "done"
            /\ UNCHANGED vv_i
       ELSE IF ~vv_gif
       THEN /\ vv_result' = Verdict(FALSE, <<"GIF not found: ", "gif_path">>)
            /\ vv_pc' = "done"
            /\ UNCHANGED vv_i
       ELSE IF check_dependencies(vv_which) # <<>>
       THEN /\ vv_result' =
                  Verdict(FALSE, <<"Missing required tools: ">>
                                 \o JoinWith(<<",", " ">>, check_dependencies(vv_which)))
            /\ vv_pc' = "done"
            /\ UNCHANGED vv_i
       ELSE /\ vv_pc' = "frames"
            /\ vv_i' = 1
            /\ UNCHANGED vv_result
    /\ UNCHANGED <<vv_demo, vv_gif, vv_which, vv_frames, vv_errors, vv_lines, vv_passed>>
    /\ UNCHANGED notVerbose

VerboseFrameKeepsPassed ==
    /\ vv_pc = "frames"
    /\ vv_i <= Len(TUI_CHECKPOINTS[vv_demo])
    /\ LET c == TUI_CHECKPOINTS[vv_demo][vv_i]
           errors == validate_checkpoint(c.frame_number, c.expected, c.forbidden,
                                         vv_frames[vv_i].extracted, vv_frames[vv_i].text)
       IN  /\ vv_errors' = Append(vv_errors, errors)
           /\ vv_lines' = IF errors # <<>>
                          THEN Append(vv_lines, FailedLine(c.frame_number)) \o ErrorLines(errors)
                          ELSE Append(vv_lines, PassedLine(c.frame_number))
           /\ vv_passed' = (errors = <<>>)
    /\ vv_i' = vv_i + 1
    /\ UNCHANGED <<vv_pc, vv_demo, vv_gif, vv_which, vv_frames, vv_result>>
    /\ UNCHANGED notVerbose

\* lines 185-196: one turn of the loop over the checkpoints
VerboseFrame ==
    /\ vv_pc = "frames"
    /\ vv_i <= Len(TUI_CHECKPOINTS[vv_demo])
    /\ LET c == TUI_CHECKPOINTS[vv_demo][vv_i]
           errors == validate_checkpoint(c.frame_number, c.expected, c.forbidden,
                                         vv_frames[vv_i].extracted, vv_frames[vv_i].text)
       IN  /\ vv_errors' = Append(vv_errors, errors)
           /\ IF errors # <<>>
              THEN /\ vv_lines' = Append(vv_lines, FailedLine(c.frame_number))
                                    \o ErrorLines(errors)
                   /\ vv_passed' = FALSE
              ELSE /\ vv_lines' = Append(vv_lines, PassedLine(c.frame_number))
                   /\ UNCHANGED vv_passed
    /\ vv_i' = vv_i + 1
    /\ UNCHANGED <<vv_pc, vv_demo, vv_gif, vv_which, vv_frames, vv_result>>
    /\ UNCHANGED notVerbose

\* lines 198-203: the closing line and the return
VerboseReturn ==
    /\ vv_pc = "frames"
    /\ vv_i > Len(TUI_CHECKPOINTS[vv_demo])
    /\ vv_lines' = Append(vv_lines, IF vv_passed
                                    THEN <<"TICK", " All checkpoints passed">>
                                    ELSE <<"CROSS", " Some checkpoints failed">>)
    /\ vv_result' = Verdict(vv_passed, Join(vv_lines'))
    /\ vv_pc' = "done"
    /\ UNCHANGED <<vv_demo, vv_gif, vv_which, vv_frames, vv_i, vv_errors, vv_passed>>
    /\ UNCHANGED notVerbose

NextVerbose ==
    \/ VerboseStart
    \/ VerboseFrame
    \/ VerboseReturn

(***************************************************************************)
(* Specification SpecRuns: one run of record_all_themes, of                *)
(* validate_tui_demo or of validate_tui_demo_verbose.                      *)
(***************************************************************************)

InitRuns ==
    \/ InitThemes
    \/ InitValidate
    \/ InitVerbose

NextRuns ==
    \/ NextThemes
    \/ NextValidate
    \/ NextVerbose

SpecRuns == InitRuns /\ [][NextRuns]_vars

\* The steps of a run that failed: VHS recordings that exited non-zero,
\* checkpoints with errors
FailedThemes == {k \in 1..Len(th_runs) : th_runs[k].rc # 0}
FailedFrames(errors) == {i \in 1..Len(errors) : errors[i] # <<>>}

\* C11 as stated: once one step of a run fails (the VHS recording of one
\* theme, or one checkpoint of validate_tui_demo or of
\* validate_tui_demo_verbose), no later step of that run is executed: a
\* failed step is the last step of its run.
C11_FailureAbortsRun ==
    /\ \A k \in FailedThemes : k = Len(th_runs)
    /\ \A i \in FailedFrames(vd_errors) : i = Len(vd_errors)
    /\ \A i \in FailedFrames(vv_errors) : i = Len(vv_errors)

\* C11, amended: a failed VHS recording is the last step of its run of
\* record_all_themes, which raises CalledProcessError with the later themes
\* not recorded; validate_tui_demo and validate_tui_demo_verbose abort
\* nothing: once they have started on the checkpoints they validate every
\* one of them, failed checkpoints before it or not.
C11_FailedRecordingAbortsRun ==
    /\ \A k \in FailedThemes :
          /\ k = Len(th_runs)
          /\ th_pc = "done"
          /\ th_result = Raised("CalledProcessError")
          /\ th_gifs[th_i] = th_runs[k].theme
    /\ vd_pc = "done" /\ vd_errors # <<>> => Len(vd_errors) = Len(TUI_CHECKPOINTS[vd_demo])
    /\ vv_pc = "done" /\ vv_errors # <<>> => Len(vv_errors) = Len(TUI_CHECKPOINTS[vv_demo])
    /\ vd_pc = "frames" => vd_result = Pending
    /\ vv_pc = "frames" => vv_result = Pending

\* The recording of the first of two themes failed and the run is over.
C11_Witness ==
    /\ th_pc = "done"
    /\ th_gifs = <<"light", "dark">>
    /\ th_runs = <<[theme |-> "light", rc |-> 1]>>
    /\ th_result = Raised("CalledProcessError")


(***************************************************************************)
(* The git commands of prepare_demo_repo (lib.py 739-898), those of        *)
(* prepare_base_repo (305-397) first, and what each does to the branches   *)
(* of the main repository, to its worktrees and to the bare remote.        *)
(***************************************************************************)

\* One command: op says what it does, at says where it runs ("repo": the
\* main repository, else the path of a worktree)
Step(op, at, branch, arg) == [op |-> op, at |-> at, branch |-> branch, arg |-> arg]

\* A command that moves no branch: init, config, add, remote add, and the
\* cargo and wt processes in between
Plain(cmd) == Step("plain", "repo", "", cmd)
Commit(at, message) == Step("commit", at, "", message)

\* path = env.work_base / f"acme.{branch}"
WorktreePath(branch) == <<"w/acme.", branch>>

CreateBetaUnpushed ==
    << Step("checkout -b", "repo", "beta", "main"),
       Step("checkout", "repo", "main", ""),
       Step("worktree add", "repo", "beta", WorktreePath("beta")),
       Step("plain", WorktreePath("beta"), "", "add notes.txt") >>

\* _create_branch_beta (lines 865-877)
CreateBeta ==
    << Step("checkout -b", "repo", "beta", "main"),
       Step("push -u", "repo", "beta", "origin"),
       Step("checkout", "repo", "main", ""),
       Step("worktree add", "repo", "beta", WorktreePath("beta")),
       Step("plain", WorktreePath("beta"), "", "add notes.txt") >>

\* _create_branch_alpha (lines 805-862)
CreateAlpha ==
    << Step("checkout -b", "repo", "alpha", "main"),
       Plain("add README.md"),
       Commit("repo", "docs: expand README"),
       Plain("add README.md"),
       Commit("repo", "docs: add contributing section"),
       Plain("add README.md"),
       Commit("repo", "docs: add license"),
       Plain("add src/utils.rs src/lib.rs"),
       Commit("repo", "feat: add utility functions module"),
       Step("push -u", "repo", "alpha", "origin"),
       Step("checkout", "repo", "main", ""),
       Step("worktree add", "repo", "alpha", WorktreePath("alpha")),
       Step("plain", WorktreePath("alpha"), "", "add README.md"),
       Commit(WorktreePath("alpha"), "docs: add FAQ section") >>

CreateHooksOnHooks ==
    << Step("checkout -b", "repo", "hooks", "main"),
       Plain("add src/lib.rs"),
       Commit("repo", "feat: add math operations, consolidate tests"),
       Step("worktree add", "repo", "hooks", WorktreePath("hooks")),
       Step("plain", WorktreePath("hooks"), "", "add src/lib.rs") >>

\* _create_branch_hooks (lines 880-898)
CreateHooks ==
    << Step("checkout -b", "repo", "hooks", "main"),
       Plain("add src/lib.rs"),
       Commit("repo", "feat: add math operations, consolidate tests"),
       Step("checkout", "repo", "main", ""),
       Step("worktree add", "repo", "hooks", WorktreePath("hooks")),
       Step("plain", WorktreePath("hooks"), "", "add src/lib.rs") >>

\* prepare_base_repo (lines 330-390), then prepare_demo_repo up to the two
\* branches without worktrees (lines 772-785)
BaseRepoSteps ==
    << Plain("init --bare"),
       Plain("init"),
       Plain("config user.name"),
       Plain("config user.email"),
       Plain("config commit.gpgsign"),
       Plain("config worktrunk.hints.worktree-path"),
       Plain("add README.md"),
       Commit("repo", "Initial commit"),
       Step("branch -m", "repo", "main", ""),
       Plain("remote add origin"),
       Step("push -u", "repo", "main", "origin"),
       Plain("add .gitignore Cargo.toml src/"),
       Commit("repo", "Add Rust project with tests"),
       Plain("cargo build --release"),
       Plain("add Cargo.lock"),
       Commit("repo", "Add Cargo.lock"),
       Step("push", "repo", "", ""),
       Plain("cargo build --quiet"),
       Plain("wt config shell install fish"),
       Plain("add .config/wt.toml .claude/CLAUDE.md"),
       Commit("repo", "Add project hooks"),
       Step("push", "repo", "", ""),
       Step("branch", "repo", "docs/readme", ""),
       Step("branch", "repo", "spike/search", "") >>

\* lines 790-798: "Commit to main so beta is behind"
MainCommit ==
    << Plain("add README.md notes.md"),
       Commit("repo", "docs: add development section"),
       Step("push", "repo", "", "") >>

DemoRepoStepsAlphaFirst ==
    BaseRepoSteps \o CreateBeta \o CreateAlpha \o MainCommit \o CreateHooks

\* prepare_demo_repo: beta, the commit to main, then alpha and hooks
\* (lines 787-802)
DemoRepoSteps ==
    BaseRepoSteps \o CreateBeta \o MainCommit \o CreateAlpha \o CreateHooks

\* The branch a command works on: the one checked out where it runs
BranchAt(at) == IF at = "repo" THEN gr_head ELSE gr_worktrees[at]

HasBranch(branches, name) == name \in DOMAIN branches

\* branches with name set to commits
WithBranch(branches, name, commits) ==
    [b \in DOMAIN branches \cup {name} |-> IF b = name THEN commits ELSE branches[b]]

\* What git refuses to do
Refused(step) ==
    \/ step.op \in {"checkout -b", "branch"} /\ HasBranch(gr_local, step.branch)
    \/ step.op = "checkout -b" /\ ~HasBranch(gr_local, step.arg)
    \/ step.op \in {"checkout", "worktree add", "push -u"} /\ ~HasBranch(gr_local, step.branch)
    \/ /\ step.op \in {"checkout", "worktree add"}
       /\ \E path \in DOMAIN gr_worktrees : gr_worktrees[path] = step.branch
    \/ step.op = "worktree add" /\ (gr_head = step.branch \/ step.arg \in DOMAIN gr_worktrees)
    \/ step.op = "push" /\ BranchAt(step.at) \notin gr_upstream

\* The repository before the first command: "git init" leaves HEAD on a
\* branch that has no commit yet, whatever init.defaultBranch calls it
InitGit ==
    /\ gr_i = 1
    /\ gr_head = "unborn"
    /\ gr_local = ("unborn" :> <<>>)
    /\ gr_remote = <<>>
    /\ gr_upstream = {}
    /\ gr_worktrees = <<>>
    /\ gr_result = Pending
    /\ QuietGit

\* run/git with check=True: the next command exits non-zero, because git
\* refuses it or for a reason of its own, and the function raises
GitFails ==
    /\ gr_result = Pending
    /\ gr_i \in 1..Len(DemoRepoSteps)
    /\ DemoRepoSteps[gr_i].arg # "cargo build --release"
    /\ gr_result' = git(1)
    /\ UNCHANGED <<gr_i, gr_head, gr_local, gr_remote, gr_upstream, gr_worktrees>>
    /\ UNCHANGED notGit

\* the next command exits with 0 and has done its work
GitStep ==
    /\ gr_result = Pending
    /\ gr_i \in 1..Len(DemoRepoSteps)
    /\ LET step == DemoRepoSteps[gr_i]
           on == BranchAt(step.at)
       IN  /\ ~Refused(step)
           /\ gr_local' =
                CASE step.op = "commit" -> WithBranch(gr_local, on, Append(gr_local[on], step.arg))
                  [] step.op = "branch -m" ->
                        [b \in (DOMAIN gr_local \ {gr_head}) \cup {step.branch} |->
                            IF b = step.branch THEN gr_local[gr_head] ELSE gr_local[b]]
                  [] step.op = "branch" -> WithBranch(gr_local, step.branch, gr_local[gr_head])
                  [] step.op = "checkout -b" ->
                        WithBranch(gr_local, step.branch, gr_local[step.arg])
                  [] OTHER -> gr_local
           /\ gr_head' =
                CASE step.op \in {"branch -m", "checkout -b", "checkout"} -> step.branch
                  [] OTHER -> gr_head
           /\ gr_remote' =
                CASE step.op = "push -u" ->
                        WithBranch(gr_remote, step.branch, gr_local[step.branch])
                  [] step.op = "push" -> WithBranch(gr_remote, on, gr_local[on])
                  [] OTHER -> gr_remote
           /\ gr_upstream' =
                CASE step.op = "push -u" -> gr_upstream \cup {step.branch}
                  [] step.op = "branch -m" /\ gr_head \in gr_upstream ->
                        (gr_upstream \ {gr_head}) \cup {step.branch}
                  [] OTHER -> gr_upstream
           /\ gr_worktrees' =
                CASE step.op = "worktree add" ->
                        [path \in DOMAIN gr_worktrees \cup {step.arg} |->
                            IF path = step.arg THEN step.branch ELSE gr_worktrees[path]]
                  [] OTHER -> gr_worktrees
    /\ gr_i' = gr_i + 1
    /\ UNCHANGED gr_result
    /\ UNCHANGED notGit

\* every command has run: prepare_demo_repo returns
GitReturn ==
    /\ gr_result = Pending
    /\ gr_i > Len(DemoRepoSteps)
    /\ gr_result' = Returned
    /\ UNCHANGED <<gr_i, gr_head, gr_local, gr_remote, gr_upstream, gr_worktrees>>
    /\ UNCHANGED notGit

NextGit ==
    \/ GitFails
    \/ GitStep
    \/ GitReturn

SpecDemoRepo == InitGit /\ [][NextGit]_vars


(***************************************************************************)
(* C12 - C15                                                               *)
(***************************************************************************)

\* The commits reachable from a branch
CommitsOf(branches, name) == {branches[name][k] : k \in 1..Len(branches[name])}

\* one history is the beginning of the other
IsPrefix(s, t) == Len(s) <= Len(t) /\ SubSeq(t, 1, Len(s)) = s

Completed == gr_result = Returned

\* C12: after prepare_demo_repo completes, the main repository has main
\* checked out, at the last commit made to main, and a worktree exists for
\* each of alpha, beta and hooks at work_base/acme.<branch>, on its own
\* branch; at no step is "git worktree add" run for the branch that is
\* checked out in the main repository.
C12_MainCheckedOutWorktreesExist ==
    /\ Completed =>
          /\ gr_head = "main"
          /\ gr_local["main"][Len(gr_local["main"])] = "docs: add development section"
          /\ \A b \in {"alpha", "beta", "hooks"} :
                /\ HasBranch(gr_local, b)
                /\ WorktreePath(b) \in DOMAIN gr_worktrees
                /\ gr_worktrees[WorktreePath(b)] = b
          /\ DOMAIN gr_worktrees = {WorktreePath(b) : b \in {"alpha", "beta", "hooks"}}
    /\ gr_i \in 1..Len(DemoRepoSteps) /\ DemoRepoSteps[gr_i].op = "worktree add" =>
          gr_head # DemoRepoSteps[gr_i].branch

\* prepare_demo_repo has completed with its three worktrees.
C12_Witness ==
    /\ Completed
    /\ gr_head = "main"
    /\ Cardinality(DOMAIN gr_worktrees) = 3

\* main holds a commit that is not reachable from the branch
Behind(b) == CommitsOf(gr_local, "main") \ CommitsOf(gr_local, b) # {}

\* the branch holds every commit of main and a commit of its own
OnlyAhead(b) ==
    /\ CommitsOf(gr_local, "main") \subseteq CommitsOf(gr_local, b)
    /\ CommitsOf(gr_local, b) \ CommitsOf(gr_local, "main") # {}

\* C13: after prepare_demo_repo completes, alpha and beta are both behind
\* main: main holds at least one commit that is not reachable from alpha,
\* and one that is not reachable from beta.
C13_AlphaAndBetaBehindMain == Completed => Behind("alpha") /\ Behind("beta")

\* Of the two, beta is behind main.
C13_BetaBehindMain == Completed => Behind("beta") /\ ~Behind("alpha")

C15_RemoteBranches ==
    Completed =>
        /\ DOMAIN gr_remote = {"main", "alpha", "beta"}
        /\ "hooks" \notin gr_upstream
        /\ gr_remote["main"] = gr_local["main"]
        /\ gr_remote["beta"] = gr_local["beta"]
        /\ gr_local["alpha"] = Append(gr_remote["alpha"], "docs: add FAQ section")

\* prepare_demo_repo has completed; the remote has its three branches and
\* the local repository has six.
C15_Witness ==
    /\ Completed
    /\ Cardinality(DOMAIN gr_remote) = 3
    /\ Cardinality(DOMAIN gr_local) = 6
    /\ gr_upstream = {"main", "alpha", "beta"}


(***************************************************************************)
(* The directories of a DemoEnv (lib.py 203-228) under the setup functions *)
(* A path is the sequence of its names below out_dir; out_dir itself, the  *)
(* empty path, exists throughout.                                          *)
(***************************************************************************)

\* DemoEnv.root and DemoEnv.home (lines 210-216): home is root
Home == <<".demo">>

\* DemoEnv.work_base (lines 218-220)
WorkBase == Home \o <<"w">>

\* DemoEnv.repo (lines 222-224)
Repo == WorkBase \o <<"repo">>

\* env.home / ".local" / "bin" (lines 366, 485, 663, 778)
BinDir == Home \o <<".local", "bin">>

Parent(path) == SubSeq(path, 1, Len(path) - 1)

\* The path and the directories above it, below out_dir
Ancestors(path) == {SubSeq(path, 1, k) : k \in 1..Len(path)}

IsUnder(path, top) == Len(top) <= Len(path) /\ SubSeq(path, 1, Len(top)) = top

Exists(dirs, path) == path = <<>> \/ path \in dirs

\* The steps of a setup function that touch the directory tree.  Of the
\* subprocesses that run between two changes of the tree, one stands for all:
\* whichever of them fails, the call raises with the same directories.
Rmtree(path) ==
    [op |-> "rmtree", path |-> path, parents |-> FALSE, exist_ok |-> FALSE, creates |-> {}]

\* Path.mkdir(parents=..., exist_ok=...)
Mkdir(path, parents, exist_ok) ==
    [op |-> "mkdir", path |-> path, parents |-> parents, exist_ok |-> exist_ok, creates |-> {}]

\* Path.write_text and shutil.copy: a write to the file at path
WriteFile(path) ==
    [op |-> "write", path |-> path, parents |-> FALSE, exist_ok |-> FALSE, creates |-> {}]

\* A checked subprocess or download that creates directories when it succeeds
External(creates) ==
    [op |-> "external", path |-> <<>>, parents |-> FALSE, exist_ok |-> FALSE, creates |-> creates]

\* path = env.work_base / f"acme.{branch}" (lines 808, 867, 883)
WorktreeDir(branch) == WorkBase \o <<branch>>

\* "git worktree add" checks the branch out at the path, src/ included
WorktreeAdd(branch) ==
    External({WorktreeDir(branch), WorktreeDir(branch) \o <<"src">>})


\* prepare_base_repo (lines 323-397)
prepare_base_repo ==
    << Rmtree(Home),
       Mkdir(Home, TRUE, TRUE),
       Mkdir(WorkBase, TRUE, TRUE),
       Mkdir(Repo, TRUE, TRUE),
       External({}),                                  \* git init ... push -u
       WriteFile(Repo \o <<"README.md">>),
       WriteFile(Repo \o <<"Cargo.toml">>),
       Mkdir(Repo \o <<"src">>, FALSE, FALSE),
       WriteFile(Repo \o <<"src", "lib.rs">>),
       WriteFile(Repo \o <<".gitignore">>),
       External({}),                                  \* add, commit, push
       Mkdir(BinDir, TRUE, TRUE),
       WriteFile(BinDir \o <<"cat">>),
       External({}),                                  \* build_wt
       External(Ancestors(Home \o <<".config", "fish", "completions">>)),
       Mkdir(Home \o <<".config", "worktrunk">>, TRUE, FALSE),
       Mkdir(Repo \o <<".config">>, FALSE, TRUE) >>

SetupMockClisNoMkdir ==
    << WriteFile(BinDir \o <<"npm">>),
       WriteFile(BinDir \o <<"cargo">>) >>

\* setup_mock_clis (lines 663-736)
setup_mock_clis ==
    << Mkdir(BinDir, TRUE, TRUE),
       WriteFile(BinDir \o <<"npm">>),
       WriteFile(BinDir \o <<"cargo">>) >>

\* prepare_demo_repo (lines 761-802) with _create_branch_beta,
\* _create_branch_alpha and _create_branch_hooks (lines 805-898)
prepare_demo_repo ==
    prepare_base_repo
    \o setup_mock_clis
    \o << WriteFile(Repo \o <<".config", "wt.toml">>),
          Mkdir(Repo \o <<".claude">>, FALSE, TRUE),
          WriteFile(Repo \o <<".claude", "CLAUDE.md">>),
          WriteFile(BinDir \o <<"gh">>),
          External({}),                               \* add, commit ... checkout
          WorktreeAdd("beta"),
          WriteFile(WorktreeDir("beta") \o <<"notes.txt">>),
          WriteFile(Repo \o <<"README.md">>),
          WriteFile(Repo \o <<"notes.md">>),
          WriteFile(Repo \o <<"README.md">>),
          WriteFile(Repo \o <<"src", "utils.rs">>),
          WriteFile(Repo \o <<"src", "lib.rs">>),
          External({}),                               \* commits, push -u
          WorktreeAdd("alpha"),
          WriteFile(WorktreeDir("alpha") \o <<"README.md">>),
          WriteFile(WorktreeDir("alpha") \o <<"scratch.rs">>),
          WriteFile(Repo \o <<"src", "lib.rs">>),
          External({}),                               \* add, commit ... checkout
          WorktreeAdd("hooks"),
          WriteFile(WorktreeDir("hooks") \o <<"src", "lib.rs">>),
          External({}) >>

\* setup_claude_code_config (lines 428-501)
setup_claude_code_config ==
    << WriteFile(Home \o <<".claude.json">>),
       Mkdir(BinDir, TRUE, TRUE),
       External({}),                                  \* _ensure_claude_binary
       WriteFile(BinDir \o <<"claude">>),
       Mkdir(Home \o <<".claude">>, FALSE, TRUE),
       WriteFile(Home \o <<".claude", "settings.json">>) >>

\* setup_zellij_config (lines 514-603)
setup_zellij_config ==
    << Mkdir(Home \o <<".config", "zellij">>, TRUE, TRUE),
       Mkdir(Home \o <<".config", "zellij", "plugins">>, FALSE, TRUE),
       External({}),                                  \* _ensure_zellij_plugin
       WriteFile(Home \o <<".config", "zellij", "plugins", "zellij-tab-name.wasm">>),
       Mkdir(Home \o <<".cache", "zellij">>, TRUE, TRUE),
       WriteFile(Home \o <<".cache", "zellij", "permissions.kdl">>),
       WriteFile(Home \o <<".config", "zellij", "config.kdl">>) >>

\* setup_fish_config (lines 620-654)
setup_fish_config ==
    << Mkdir(Home \o <<".config", "fish">>, TRUE, TRUE),
       WriteFile(Home \o <<".config", "fish", "config.fish">>) >>

\* The setup operations on a DemoEnv
SetupOps ==
    [prepare_base_repo |-> prepare_base_repo,
     prepare_demo_repo |-> prepare_demo_repo,
     setup_mock_clis |-> setup_mock_clis,
     setup_claude_code_config |-> setup_claude_code_config,
     setup_zellij_config |-> setup_zellij_config,
     setup_fish_config |-> setup_fish_config]

\* What one step makes of the directories: the directories after it, what it
\* raised if it did, and the file it could not write for want of a directory.
\* keep is what a failing rmtree leaves behind (ignore_errors=True, line 323).
Outcome(dirs, result, missed) == [dirs |-> dirs, result |-> result, missed |-> missed]

RunStep(step, dirs, fails, keep) ==
    CASE step.op = "rmtree" ->
           Outcome({d \in dirs : ~IsUnder(d, step.path) \/ d \in keep}, Returned, <<>>)
      [] step.op = "mkdir" ->
           IF step.path \in dirs
           THEN Outcome(dirs, IF step.exist_ok THEN Returned ELSE Raised("FileExistsError"), <<>>)
           ELSE IF step.parents
           THEN Outcome(dirs \cup Ancestors(step.path), Returned, <<>>)
           ELSE IF Exists(dirs, Parent(step.path))
           THEN Outcome(dirs \cup {step.path}, Returned, <<>>)
           ELSE Outcome(dirs, Raised("FileNotFoundError"), <<>>)
      [] step.op = "write" ->
           IF Exists(dirs, Parent(step.path))
           THEN Outcome(dirs, Returned, <<>>)
           ELSE Outcome(dirs, Raised("FileNotFoundError"), step.path)
      [] step.op = "external" ->
           IF fails
           THEN Outcome(dirs, Raised("CalledProcessError"), <<>>)
           ELSE Outcome(dirs \cup step.creates, Returned, <<>>)

\* The steps from the k-th on, up to the first that raises; the step at
\* fail_at, if it is a subprocess or a download, fails.
RECURSIVE RunSteps(_, _, _, _, _)
RunSteps(steps, k, dirs, fail_at, keep) ==
    IF k > Len(steps)
    THEN Outcome(dirs, Returned, <<>>)
    ELSE LET out == RunStep(steps[k], dirs, k = fail_at, keep)
         IN  IF out.result = Returned
             THEN RunSteps(steps, k + 1, out.dirs, fail_at, keep)
             ELSE out

Externals(steps) == {k \in 1..Len(steps) : steps[k].op = "external"}

HasRmtree(steps) == \E k \in 1..Len(steps) : steps[k].op = "rmtree"

\* The directories prepare_base_repo creates
BaseTree ==
    Ancestors(Repo \o <<"src">>) \cup Ancestors(Repo \o <<".config">>)
      \cup Ancestors(BinDir) \cup Ancestors(Home \o <<".config", "worktrunk">>)

\* What rmtree may leave of the tree when it fails and the failure is
\* ignored (line 323): all of it, or the directories down to one of
\* prepare_base_repo's own that it could not empty.
RmtreeLeaves(dirs) ==
    {{}} \cup {dirs} \cup {Ancestors(d) : d \in dirs \cap BaseTree}

\* What was left: nothing, part of a tree, or the whole tree of an earlier
\* prepare_base_repo
Kept(keep) ==
    IF keep = {} THEN "nothing" ELSE IF BaseTree \subseteq keep THEN "tree" ELSE "part"

InitSetup ==
    /\ fs_dirs = {}
    /\ fs_op = ""
    /\ fs_kept = "nothing"
    /\ fs_missed = <<>>
    /\ fs_result = Pending
    /\ QuietFs

\* One call of a setup function on the DemoEnv, start to end
SetupCall ==
    \E name \in DOMAIN SetupOps :
      LET steps == SetupOps[name] IN
      \E fail_at \in {0} \cup Externals(steps) :
      \E keep \in (IF HasRmtree(steps) THEN RmtreeLeaves(fs_dirs) ELSE {{}}) :
        LET out == RunSteps(steps, 1, fs_dirs, fail_at, keep) IN
        /\ fs_dirs' = out.dirs
        /\ fs_op' = name
        /\ fs_kept' = Kept(keep)
        /\ fs_missed' = out.missed
        /\ fs_result' = out.result
        /\ UNCHANGED notFs

NextSetup == SetupCall

SpecSetup == InitSetup /\ [][NextSetup]_vars

(***************************************************************************)
(* C16, C17                                                                *)
(***************************************************************************)

\* C16: for every sequence of the setup operations on a DemoEnv, in
\* whatever order they are called, every file write targets a directory
\* that exists at that moment.
C16_WritesTargetExistingDirs == fs_missed = <<>>

\* The one write into a missing directory: setup_claude_code_config writes
\* .claude.json into env.home before anything has created env.home.  Every
\* other write of the setup operations, in whatever order they are called,
\* targets a directory that exists at that moment.
C16_WritesTargetExistingDirsButHome ==
    /\ fs_missed # <<>> =>
          /\ fs_op = "setup_claude_code_config"
          /\ fs_missed = Home \o <<".claude.json">>
          /\ Home \notin fs_dirs
    /\ (Home \in fs_dirs /\ fs_result.kind = "raised") =>
          fs_result.exc # "FileNotFoundError"

\* setup_claude_code_config has been called on a DemoEnv whose home another
\* setup function had created, though not prepare_base_repo, and has made
\* all its writes.
C16_Witness ==
    /\ fs_op = "setup_claude_code_config"
    /\ fs_result = Returned
    /\ fs_missed = <<>>
    /\ Home \o <<".claude">> \in fs_dirs
    /\ Repo \notin fs_dirs

\* C17: when the directory tree of an earlier prepare_base_repo run is still
\* present after the ignored rmtree failure, none of prepare_base_repo's
\* directory-creation steps fails because the directory already exists.
C17_NoMkdirFailsOnLeftoverTree ==
    (fs_op = "prepare_base_repo" /\ fs_kept = "tree") =>
        fs_result # Raised("FileExistsError")

\* The same with no leftover: prepare_base_repo on a tree that rmtree removed
C17_NoMkdirFailsOnRemovedTree ==
    (fs_op \in {"prepare_base_repo", "prepare_demo_repo"} /\ fs_kept = "nothing") =>
        fs_result # Raised("FileExistsError")


(***************************************************************************)
(* Specification SpecSource: render_tape on templates whose Source file    *)
(* holds a Source directive and a token, with replacement values that hold *)
(* a Source directive.                                                     *)
(***************************************************************************)

SourceLine(path) == SourceWord \o <<" ">> \o path \o <<"\n">>

\* The file s names the file t and holds a token; the file t holds text.
NestedFiles ==
    (<<"s">> :> Text(SourceLine(<<"t">>) \o Token(<<"A">>))) @@ (<<"t">> :> Text(<<"y">>))

SourceValues == {StrVal(<<"x">>), StrVal(SourceLine(<<"s">>)), IntVal(7)}

SourceDicts ==
    UNION { { d \in [1..n -> RenderKeys \X SourceValues] :
                \A i, j \in 1..n : i # j => d[i][1] # d[j][1] } : n \in 0..MaxKeys }

InitSource ==
    /\ rn_pc = "start"
    /\ rn_exists \in BOOLEAN
    /\ rn_template \in (IF rn_exists THEN RenderTemplates ELSE {<<>>})
    /\ rn_files = NestedFiles
    /\ rn_repl \in SourceDicts
    /\ rn_rendered = <<>>
    /\ rn_k = 0
    /\ rn_result = Pending
    /\ IdleExtract
    /\ IdleSnap
    /\ IdleText
    /\ IdleCalls
    /\ IdleValidation
    /\ IdleSetup

SpecSource == InitSource /\ [][NextRender]_vars

\* The template has a Source directive that re.sub inlines
Inlines == SourcePaths(rn_template, TRUE) # <<>>

HasKey(key) == \E i \in 1..Len(rn_repl) : KeyOf(i) = key

\* The value of A, when A is a key, goes where a token of A stood in the
\* template or in the inlined file
ValueOfAPlaced ==
    /\ HasKey(<<"A">>)
    /\ Inlines \/ In(Token(<<"A">>), rn_template)

\* C18: render_tape inlines the Source directives first and applies the
\* replacements afterwards, each once: a {{VAR}} token inside an inlined
\* file is substituted, a Source directive inside an inlined file is not
\* expanded and stays in the output, and so does a Source directive inside
\* a replacement value.
C18_InlineThenReplaceOnce ==
    RenderedText =>
        /\ (Inlines /\ HasKey(<<"A">>)) =>
              \A i \in 1..Len(rn_repl) :
                 KeyOf(i) = <<"A">> =>
                    /\ ~In(SourceLine(<<"t">>) \o Token(<<"A">>), rn_result.text)
                    /\ In(SourceLine(<<"t">>) \o ValueOf(i), rn_result.text)
        /\ Inlines => In(SourceLine(<<"t">>), rn_result.text)
        /\ \A i \in 1..Len(rn_repl) :
              (KeyOf(i) = <<"A">> /\ ValueOfAPlaced /\ ValueOf(i) = SourceLine(<<"s">>)) =>
                  In(SourceLine(<<"s">>), rn_result.text)
        /\ rn_result.text = ApplyReplacements(InlineSources(rn_template, TRUE, rn_files), rn_repl, 1)

\* render_tape has inlined the file s, whose token of A was replaced by a
\* value that is itself a Source directive; both directives are in the
\* output.
C18_Witness ==
    /\ RenderedText
    /\ Inlines
    /\ \E i \in 1..Len(rn_repl) : KeyOf(i) = <<"A">> /\ ValueOf(i) = SourceLine(<<"s">>)
    /\ In(SourceLine(<<"t">>) \o SourceLine(<<"s">>), rn_result.text)


(***************************************************************************)
(* C19                                                                     *)
(***************************************************************************)

\* ffmpeg has run and the frame could not be extracted
ExtractionFailed ==
    /\ Len(vc_tools) >= 1
    /\ vc_tools[1].returncode # 0 \/ ~vc_tools[1].written

\* tesseract has run and ocr_image returned no text
OcrEmpty ==
    /\ Len(vc_tools) = 2
    /\ vc_text = <<>>

\* C19: validate_checkpoint returns exactly one error and checks no
\* patterns when the frame cannot be extracted ("Failed to extract frame
\* N") or when OCR yields empty text ("OCR failed for frame N"); tesseract
\* is not run at all after a failed extraction.
C19_OneErrorNoPatternsChecked ==
    /\ ExtractionFailed =>
          /\ vc_pc = "done"
          /\ vc_result = List(<<ExtractFailed(vc_frame)>>)
          /\ Len(vc_tools) = 1
          /\ vc_k = 0 /\ vc_errors = <<>>
    /\ OcrEmpty =>
          /\ vc_pc = "done"
          /\ vc_result = List(<<OcrFailed(vc_frame)>>)
          /\ vc_k = 0 /\ vc_errors = <<>>
    /\ \A i \in 1..Len(vc_tools) :
          vc_tools[i].tool = (IF i = 1 THEN "ffmpeg" ELSE "tesseract")

\* ffmpeg exited 0 without leaving the frame, and validate_checkpoint has
\* returned, with patterns to check that it did not check.
C19_Witness ==
    /\ vc_pc = "done"
    /\ vc_tools = <<Ran("ffmpeg", 0, FALSE)>>
    /\ vc_expected # <<>>
    /\ vc_result = List(<<ExtractFailed(vc_frame)>>)

\* tesseract exited non-zero and validate_checkpoint has returned the one
\* error of a failed OCR.
C19_OcrFailedReached ==
    /\ vc_pc = "done"
    /\ Len(vc_tools) = 2 /\ vc_tools[2].returncode # 0
    /\ vc_forbidden # <<>>
    /\ vc_result = List(<<OcrFailed(vc_frame)>>)


(***************************************************************************)
(* Specification SpecVhs: calls of ensure_vhs_binary (lib.py 120-172), one *)
(* after the other, on the dependency directory they share.                *)
(***************************************************************************)

MaxVhsCalls == 4

\* vhs_binary = DEPS_DIR / "vhs" / "vhs" (lines 126-127)
VhsBinary == <<"vhs", "vhs">>

\* One step of ensure_vhs_binary and whether it succeeded
Did(step, ok) == [step |-> step, ok |-> ok]

InitVhs ==
    /\ vh_pc = "idle"
    /\ vh_calls = 0
    /\ vh_go \in BOOLEAN
    /\ vh_dir \in BOOLEAN
    /\ vh_binary \in (IF vh_dir THEN BOOLEAN ELSE {FALSE})
    /\ vh_entry = <<>>
    /\ vh_ran = <<>>
    /\ vh_result = Pending
    /\ QuietVhs

\* A call begins; Go may have been installed or removed since the last one.
VhsEnter ==
    /\ vh_pc \in {"idle", "done"}
    /\ vh_calls < MaxVhsCalls
    /\ vh_calls' = vh_calls + 1
    /\ vh_pc' = "entry"
    /\ vh_go' \in BOOLEAN
    /\ vh_entry' = [dir |-> vh_dir, binary |-> vh_binary]
    /\ vh_ran' = <<>>
    /\ vh_result' = Pending
    /\ UNCHANGED <<vh_dir, vh_binary>>
    /\ UNCHANGED notVhs

\* lines 129-130: the binary is there already
VhsExists ==
    /\ vh_pc = "entry"
    /\ IF vh_binary
       THEN /\ vh_pc' = "done"
            /\ vh_result' = Text(VhsBinary)
       ELSE /\ vh_pc' = "go"
            /\ UNCHANGED vh_result
    /\ UNCHANGED <<vh_calls, vh_go, vh_dir, vh_binary, vh_entry, vh_ran>>
    /\ UNCHANGED notVhs

\* lines 133-136: check Go is available
VhsGo ==
    /\ vh_pc = "go"
    /\ vh_ran' = Append(vh_ran, Did("go", vh_go))
    /\ IF ~vh_go
       THEN /\ vh_pc' = "done"
            /\ vh_result' = Raised("RuntimeError")
       ELSE /\ vh_pc' = "clone"
            /\ UNCHANGED vh_result
    /\ UNCHANGED <<vh_calls, vh_go, vh_dir, vh_binary, vh_entry>>
    /\ UNCHANGED notVhs

\* lines 139-148: clone if needed.  A clone that fails may leave the
\* directory behind or not.
VhsClone ==
    /\ vh_pc = "clone"
    /\ IF vh_dir
       THEN /\ vh_pc' = "build"
            /\ UNCHANGED <<vh_dir, vh_ran, vh_result>>
       ELSE \E returncode \in {0, 1} :
              /\ vh_ran' = Append(vh_ran, Did("clone", returncode = 0))
              /\ IF returncode # 0
                 THEN /\ vh_pc' = "done"
                      /\ vh_result' = Raised("RuntimeError")
                      /\ vh_dir' \in BOOLEAN
                 ELSE /\ vh_pc' = "build"
                      /\ vh_dir' = TRUE
                      /\ UNCHANGED vh_result
    /\ UNCHANGED <<vh_calls, vh_go, vh_binary, vh_entry>>
    /\ UNCHANGED notVhs

VhsBuildUnchecked ==
    /\ vh_pc = "build"
    /\ \E returncode \in {0, 1} :
          /\ vh_ran' = Append(vh_ran, Did("build", returncode = 0))
          /\ vh_binary' \in (IF returncode = 0 THEN BOOLEAN ELSE {FALSE})
    /\ vh_pc' = "verify"
    /\ UNCHANGED <<vh_calls, vh_go, vh_dir, vh_entry, vh_result>>
    /\ UNCHANGED notVhs

\* lines 151-159: go build -o vhs . in vhs_dir, which exists by now.  A
\* build that exits 0 has written the binary, or has written nothing when
\* the package is not a command.
VhsBuild ==
    /\ vh_pc = "build"
    /\ \E returncode \in {0, 1} :
          /\ vh_ran' = Append(vh_ran, Did("build", returncode = 0))
          /\ IF returncode # 0
             THEN /\ vh_pc' = "done"
                  /\ vh_result' = Raised("RuntimeError")
                  /\ UNCHANGED vh_binary
             ELSE /\ vh_pc' = "verify"
                  /\ vh_binary' \in BOOLEAN
                  /\ UNCHANGED vh_result
    /\ UNCHANGED <<vh_calls, vh_go, vh_dir, vh_entry>>
    /\ UNCHANGED notVhs

\* lines 162-172: run the binary with --version; a binary that is not there
\* cannot be started
VhsVerify ==
    /\ vh_pc = "verify"
    /\ IF ~vh_binary
       THEN /\ vh_ran' = Append(vh_ran, Did("verify", FALSE))
            /\ vh_result' = Raised("FileNotFoundError")
       ELSE \E returncode \in {0, 1} :
              /\ vh_ran' = Append(vh_ran, Did("verify", returncode = 0))
              /\ vh_result' = IF returncode # 0 THEN Raised("RuntimeError")
                              ELSE Text(VhsBinary)
    /\ vh_pc' = "done"
    /\ UNCHANGED <<vh_calls, vh_go, vh_dir, vh_binary, vh_entry>>
    /\ UNCHANGED notVhs

NextVhs ==
    \/ VhsEnter
    \/ VhsExists
    \/ VhsGo
    \/ VhsClone
    \/ VhsBuild
    \/ VhsVerify

SpecVhs == InitVhs /\ [][NextVhs]_vars

\* The place of a step in the order Go check, clone, build, verify
StepRank(step) ==
    CASE step = "go" -> 1 [] step = "clone" -> 2 [] step = "build" -> 3 [] step = "verify" -> 4

HasRun(step) == \E i \in 1..Len(vh_ran) : vh_ran[i].step = step

Succeeded(step) == \E i \in 1..Len(vh_ran) : vh_ran[i].step = step /\ vh_ran[i].ok

InCall == vh_pc \notin {"idle"}

\* C20: ensure_vhs_binary performs its steps in the order Go check, clone,
\* build, verify and stops at the first failing step: it runs neither
\* clone nor build when the binary already exists, raises before cloning
\* when Go is missing, clones only when the vhs directory is absent, and
\* returns the binary path only if the binary existed on entry or the
\* --version check of the freshly built binary succeeded.
C20_StepsInOrderStopAtFirstFailure ==
    InCall =>
      /\ \A i, j \in 1..Len(vh_ran) :
            i < j => StepRank(vh_ran[i].step) < StepRank(vh_ran[j].step)
      /\ \A i \in 1..Len(vh_ran) :
            ~vh_ran[i].ok => /\ i = Len(vh_ran)
                             /\ vh_pc = "done"
                             /\ vh_result.kind = "raised"
      /\ vh_entry.binary => vh_ran = <<>>
      /\ (HasRun("go") /\ ~vh_go) => vh_ran = <<Did("go", FALSE)>>
      /\ HasRun("clone") => ~vh_entry.dir /\ Succeeded("go")
      /\ HasRun("build") => Succeeded("go") /\ (vh_entry.dir \/ Succeeded("clone"))
      /\ HasRun("verify") => Succeeded("build")
      /\ (vh_pc = "done" /\ vh_result = Text(VhsBinary)) =>
            vh_entry.binary \/ (Succeeded("build") /\ Succeeded("verify"))
      /\ (vh_pc = "done" /\ vh_entry.binary) => vh_result = Text(VhsBinary)

\* In a call that found neither the directory nor the binary, all four
\* steps have run and the path of the binary was returned.
C20_Witness ==
    /\ vh_pc = "done"
    /\ vh_entry = [dir |-> FALSE, binary |-> FALSE]
    /\ vh_ran = <<Did("go", TRUE), Did("clone", TRUE), Did("build", TRUE), Did("verify", TRUE)>>
    /\ vh_result = Text(VhsBinary)

(***************************************************************************)
(* C21: concurrent _download_file calls for one destination                *)
(***************************************************************************)

\* C21: in every interleaving of the concurrent calls the destination is
\* never a partially written file: whatever is at dest, at any moment and
\* for any observer of dest.exists(), is a complete download (or the
\* complete file that was there before), and every call that has returned
\* normally leaves dest present.
C21_DestWholeAndPresentAfterReturn ==
    /\ dl_dest # None => dl_dest.whole
    /\ \A p \in DOMAIN dl_pc :
          (dl_pc[p] = "done" /\ dl_result[p] = Returned) => dl_dest # None

\* one call failed half-way and had a partial temp file to clean up, while
\* the other call found no dest, renamed its own download and returned
C21_Witness ==
    /\ \E p \in DOMAIN dl_pc :
          /\ dl_pc[p] = "unlink"
          /\ dl_temp[p] = Partial(p)
          /\ dl_result[p] = Raised("URLError")
    /\ \E q \in DOMAIN dl_pc :
          /\ dl_pc[q] = "done"
          /\ dl_result[q] = Returned
          /\ dl_dest = Downloaded(q)

(***************************************************************************)
(* C22: the rendered tape files of record_text and record_all_themes       *)
(***************************************************************************)

\* C22 as stated: every rendered tape file written by record_text
\* (.text-rendered.tape) or by record_all_themes (.rendered.tape) has been
\* deleted by the time the function returns or raises, whether VHS
\* succeeded or failed.
C22_RenderedTapesDeleted ==
    /\ tx_pc = "done" => tx_tape = None
    /\ th_pc = "done" => th_tape = None

\* The half of C22 that record_text keeps: its try/finally (lines 970-973)
\* unlinks .text-rendered.tape on both paths.
C22_TextTapeDeleted == tx_pc = "done" => tx_tape = None

\* record_all_themes has raised because VHS failed, and .rendered.tape is
\* still in the output directory
C22_TapeLeftBehind ==
    /\ th_pc = "done"
    /\ th_result = Raised("CalledProcessError")
    /\ th_tape # None

(***************************************************************************)
(* _ensure_claude_binary (lib.py 78-106), called by several processes and  *)
(* more than once, with the steps of _download_file (60-74) in place.      *)
(***************************************************************************)

\* the calls each process may make
MaxEnsureCalls == 2

\* DEPS_DIR / "claude"
claude_binary == <<".deps", "/", "claude">>

\* A file of process p: whole when urlretrieve returned normally, exec once
\* chmod 0o755 has been applied to it, failed once a --version run of it has
\* exited non-zero (a record of what happened to the file, which no code
\* reads).
Binary(p, whole) ==
    [kind |-> "file", by |-> p, whole |-> whole, exec |-> FALSE, failed |-> FALSE]

\* a binary that an earlier, complete call left behind
Installed == [kind |-> "file", by |-> 0, whole |-> TRUE, exec |-> TRUE, failed |-> FALSE]

InitClaude ==
    /\ cb_dest \in {None, Installed}
    /\ cb_proc = [p \in Procs |->
                    [pc |-> "out", calls |-> 0, temp |-> None, result |-> Pending, seen |-> None]]
    /\ QuietClaude

\* a process calls _ensure_claude_binary
ClaudeEnter(p) ==
    /\ cb_proc[p].pc = "out"
    /\ cb_proc[p].calls < MaxEnsureCalls
    /\ cb_proc' = [cb_proc EXCEPT ![p].pc = "exists", ![p].calls = @ + 1,
                                  ![p].result = Pending, ![p].seen = None]
    /\ UNCHANGED cb_dest
    /\ UNCHANGED notClaude

\* lines 81-82: if claude_binary.exists(): return claude_binary
ClaudeExists(p) ==
    /\ cb_proc[p].pc = "exists"
    /\ IF cb_dest # None
       THEN cb_proc' = [cb_proc EXCEPT ![p].pc = "out", ![p].result = Text(claude_binary),
                                       ![p].seen = cb_dest]
       ELSE cb_proc' = [cb_proc EXCEPT ![p].pc = "stable"]
    /\ UNCHANGED cb_dest
    /\ UNCHANGED notClaude

\* lines 84-89: the platform, then urlopen of the stable version, which
\* raises when the bucket cannot be read
ClaudeStable(p) ==
    /\ cb_proc[p].pc = "stable"
    /\ \E read \in BOOLEAN :
          IF read
          THEN cb_proc' = [cb_proc EXCEPT ![p].pc = "retrieve"]
          ELSE cb_proc' = [cb_proc EXCEPT ![p].pc = "out", ![p].result = Raised("URLError")]
    /\ UNCHANGED cb_dest
    /\ UNCHANGED notClaude

\* lines 65-69 of _download_file: mkdir of DEPS_DIR, then urlretrieve into
\* the temp file of this process; a failure may leave a part of the file
ClaudeRetrieve(p) ==
    /\ cb_proc[p].pc = "retrieve"
    /\ \/ cb_proc' = [cb_proc EXCEPT ![p].pc = "test", ![p].temp = Binary(p, TRUE)]
       \/ \E left \in {None, Binary(p, FALSE)} :
             cb_proc' = [cb_proc EXCEPT ![p].pc = "unlink", ![p].temp = left,
                                        ![p].result = Raised("URLError")]
    /\ UNCHANGED cb_dest
    /\ UNCHANGED notClaude

\* line 71: if not dest.exists()
ClaudeTest(p) ==
    /\ cb_proc[p].pc = "test"
    /\ cb_proc' = [cb_proc EXCEPT ![p].pc = IF cb_dest = None THEN "rename" ELSE "unlink"]
    /\ UNCHANGED cb_dest
    /\ UNCHANGED notClaude

\* line 72: temp.rename(dest), which replaces whatever is at dest by now
ClaudeRename(p) ==
    /\ cb_proc[p].pc = "rename"
    /\ cb_dest' = cb_proc[p].temp
    /\ cb_proc' = [cb_proc EXCEPT ![p].pc = "unlink", ![p].temp = None]
    /\ UNCHANGED notClaude

\* line 74: finally temp.unlink(missing_ok=True); a pending exception of
\* urlretrieve leaves _ensure_claude_binary here
ClaudeUnlink(p) ==
    /\ cb_proc[p].pc = "unlink"
    /\ cb_proc' = [cb_proc EXCEPT ![p].temp = None,
                                  ![p].pc = IF cb_proc[p].result = Pending THEN "chmod" ELSE "out"]
    /\ UNCHANGED cb_dest
    /\ UNCHANGED notClaude

\* line 94: claude_binary.chmod(0o755), on the file that is at the path now
ClaudeChmod(p) ==
    /\ cb_proc[p].pc = "chmod"
    /\ cb_dest' = [cb_dest EXCEPT !.exec = TRUE]
    /\ cb_proc' = [cb_proc EXCEPT ![p].pc = "verify"]
    /\ UNCHANGED notClaude

\* lines 97-106: run claude --version; a file that is not executable
\* cannot be run (PermissionError), a non-zero exit raises RuntimeError and
\* leaves the file where it is, and otherwise the path is returned
ClaudeVerify(p) ==
    /\ cb_proc[p].pc = "verify"
    /\ IF ~cb_dest.exec
       THEN /\ cb_proc' = [cb_proc EXCEPT ![p].pc = "out", ![p].result = Raised("PermissionError")]
            /\ UNCHANGED cb_dest
       ELSE \E returncode \in {0, 1} :
               IF returncode # 0
               THEN /\ cb_proc' = [cb_proc EXCEPT ![p].pc = "out",
                                                  ![p].result = Raised("RuntimeError")]
                    /\ cb_dest' = [cb_dest EXCEPT !.failed = TRUE]
               ELSE /\ cb_proc' = [cb_proc EXCEPT ![p].pc = "out",
                                                  ![p].result = Text(claude_binary),
                                                  ![p].seen = cb_dest]
                    /\ UNCHANGED cb_dest
    /\ UNCHANGED notClaude

NextClaude ==
    \E p \in Procs :
        \/ ClaudeEnter(p)
        \/ ClaudeExists(p)
        \/ ClaudeStable(p)
        \/ ClaudeRetrieve(p)
        \/ ClaudeTest(p)
        \/ ClaudeRename(p)
        \/ ClaudeUnlink(p)
        \/ ClaudeChmod(p)
        \/ ClaudeVerify(p)

SpecClaude == InitClaude /\ [][NextClaude]_vars

\* the calls that have returned the path
ReturnedPath(p) ==
    /\ cb_proc[p].pc = "out"
    /\ cb_proc[p].result = Text(claude_binary)

\* C23: with concurrent calls of _ensure_claude_binary, every path a call
\* returns refers, at the moment of the return, to a binary that has been
\* made executable (chmod 0o755): no process returns through the exists()
\* fast path between another process's rename and that process's chmod.
C23_ReturnedBinaryIsExecutable ==
    \A p \in DOMAIN cb_proc : ReturnedPath(p) => cb_proc[p].seen.exec

\* C24: across any sequence of calls of _ensure_claude_binary, a downloaded
\* binary whose --version run failed is never returned: once a call has
\* raised "Claude binary downloaded but --version failed", no later call
\* returns the path while that same file is at it.
C24_FailedBinaryNeverReturned ==
    \A p \in DOMAIN cb_proc : ReturnedPath(p) => ~cb_proc[p].seen.failed

(***************************************************************************)
(* Specification SpecAgree: validate_tui_demo and                          *)
(* validate_tui_demo_verbose, each called once with the same demo name,    *)
(* on the same GIF, with the same tools installed and the same frames.     *)
(***************************************************************************)

InitAgree ==
    /\ vd_pc = "start"
    /\ vd_demo \in DemoNames
    /\ vd_gif \in BOOLEAN
    /\ vd_which \in [1..Len(Tools) -> {0, 1}]
    /\ vd_frames \in [1..Len(TUI_CHECKPOINTS["wt_zellij_omnibus"]) -> FrameOutcomes]
    /\ vd_i = 0
    /\ vd_errors = <<>>
    /\ vd_all = <<>>
    /\ vd_result = Pending
    /\ vv_pc = "start"
    /\ vv_demo = vd_demo
    /\ vv_gif = vd_gif
    /\ vv_which = vd_which
    /\ vv_frames = vd_frames
    /\ vv_i = 0
    /\ vv_errors = <<>>
    /\ vv_lines = << <<"Validating ", vv_demo, ": ", "gif_path">> >>
    /\ vv_passed = TRUE
    /\ vv_result = Pending
    /\ IdleRender /\ IdleExtract /\ IdleSnap /\ IdleText /\ IdleCalls
    /\ IdleCheck /\ IdleDownload /\ IdleThemes /\ IdleGit /\ IdleFs
    /\ IdleVhs /\ IdleClaude

NextAgree ==
    \/ NextValidate
    \/ NextVerbose

SpecAgree == InitAgree /\ [][NextAgree]_vars

\* both calls are over
BothValidated == vd_pc = "done" /\ vv_pc = "done"

\* C25: validate_tui_demo_verbose and validate_tui_demo agree: for the same
\* demo name, GIF and tool/OCR outcomes, the verbose success flag is True
\* exactly when the plain function returns an empty list, and both apply
\* the precondition checks in the same order: either both leave through a
\* precondition, and then through the same one with the same message, or
\* both validate every checkpoint, with the same errors for each.
C25_VerboseAgreesWithPlain ==
    BothValidated =>
        /\ vv_result.success <=> (vd_result.list = <<>>)
        /\ (vv_i = 0) <=> (vd_i = 0)
        /\ vd_i = 0 => vd_result.list = <<vv_result.message>>
        /\ vv_errors = vd_errors

\* both calls validated every checkpoint, the first passed and a later one
\* failed: the verbose flag is False and the list is not empty
C25_Witness ==
    /\ BothValidated
    /\ vd_errors # <<>>
    /\ vd_errors[1] = <<>>
    /\ \E i \in 1..Len(vd_errors) : vd_errors[i] # <<>>
    /\ ~vv_result.success
    /\ vd_result.list # <<>>

\* both calls left at the second precondition although the third fails too
C25_SamePrecondition ==
    /\ BothValidated
    /\ ~vd_gif
    /\ check_dependencies(vd_which) # <<>>
    /\ vd_result.list = << <<"GIF not found: ", "gif_path">> >>
    /\ vv_result = Verdict(FALSE, <<"GIF not found: ", "gif_path">>)

====
